---- MODULE Spec2Model ----
(***************************************************************************)
(* A model of abe (dalmaer/abe): the generate / critique / iterate tasks,  *)
(* the selector, the weighted total, the run store's manifest and the      *)
(* pipeline executor.  Each subsystem has its own specification over the   *)
(* shared variables; the variables a specification does not use stay at    *)
(* their idle values.                                                      *)
(***************************************************************************)
EXTENDS Integers, Sequences, FiniteSets, TLC

VARIABLES
    \* the command or task that runs, and what it was called with
    cmd, dryRun, concurrency,
    \* the task: its position, how it ended, the provider calls made so far
    tpc, retKind, providerCalls,
    \* the units of the current stage invocation (the tasks array handed to
    \* Promise.allSettled): the unit, its position, the value it settled with
    \* and its local data (generate: the manifest addImageToManifest read)
    units, upc, uout, ulocal,
    \* what the task returns as results
    results,
    \* generateTask: its arguments, generate/manifest.json and the image
    \* files on disk
    genIn, manifest, imageFiles,
    \* critiqueTask: its arguments, the critique/<imageId>.json files and the
    \* summary it wrote
    critIn, critiqueFiles, summary,
    \* iterateTask: its arguments, the pass, the candidates of the pass, the
    \* accumulated results, and the record of the passes executed so far
    iterIn, pass, currentImages, allResults, passLog, finalImages,
    \* the passes of the object iterateTask returns
    retPasses,
    \* the run command: the pipeline file, the options, logs.jsonl, the
    \* executor's stepResults, the artifacts on disk, the step in execution
    pipeline, popts, plog, stepResults, pdisk, pstep,
    \* the warnings validatePipeline wrote to the console
    pwarn,
    \* the selector, applied once and then to its own output
    selItems, selPolicy, selOut, selAgain, selPc,
    \* the caller of iterateTask and the selection it was given
    selArgs,
    \* calculateWeightedTotal
    wtRubric, wtScores, wtOut, wtPc,
    \* the prompt of a call: the flags or step fields and the config, the
    \* overrides loaded from them, the template resolved
    prIn, prOverrides, prOut, prPc,
    \* the variant_descriptor of the template context of the call
    prContext

taskVars == <<cmd, dryRun, concurrency, tpc, retKind, providerCalls>>
unitVars == <<units, upc, uout, ulocal, results>>
genVars == <<genIn, manifest, imageFiles>>
critVars == <<critIn, critiqueFiles, summary>>
iterVars ==
    <<iterIn, pass, currentImages, allResults, passLog, finalImages,
      retPasses>>
pipeVars == <<pipeline, popts, plog, stepResults, pdisk, pstep, pwarn>>
selVars == <<selItems, selPolicy, selOut, selAgain, selPc, selArgs>>
wtVars == <<wtRubric, wtScores, wtOut, wtPc>>
promptVars == <<prIn, prOverrides, prOut, prPc, prContext>>
vars == <<taskVars, unitVars, genVars, critVars, iterVars, pipeVars, selVars,
          wtVars, promptVars>>

\* What the actions of one subsystem leave alone.
genRest == <<critVars, iterVars, pipeVars, selVars, wtVars,
    promptVars>>
critRest == <<genIn, manifest, iterVars, pipeVars, selVars, wtVars,
    promptVars>>
iterRest == <<genIn, manifest, critIn, pipeVars, selVars, wtVars,
    promptVars>>
pipeRest == <<unitVars, genVars, critVars, iterVars, selVars, wtVars,
    promptVars>>
selRest ==
    <<taskVars, unitVars, genVars, critVars, iterVars, pipeVars, promptVars>>
wtRest ==
    <<taskVars, unitVars, genVars, critVars, iterVars, pipeVars, selVars,
      promptVars>>

(***************************************************************************)
(* Optional values: a JavaScript property that may be undefined.           *)
(***************************************************************************)
None == <<>>
Some(x) == <<x>>
IsSome(o) == o /= <<>>
Val(o) == o[1]

Min2(a, b) == IF a <= b THEN a ELSE b

\* A dry-run test that never short-circuits.
NoShortCircuit == FALSE

\* if (dryRun) in the tasks, if (argv['dry-run']) in the run command
ShortCircuit == dryRun

(***************************************************************************)
(* The selector: src/tasks/iterate.js, selectImagesForIteration.           *)
(***************************************************************************)
MaxLen == 3
MaxScore == 3
MaxTopK == 2

\* (img.weightedTotal || 0)
ScoreOf(img) ==
    IF "weightedTotal" \in DOMAIN img /\ IsSome(img.weightedTotal)
    THEN Val(img.weightedTotal)
    ELSE 0

\* selectedImages.filter(img => (img.weightedTotal || 0) >= select.minScore)
FilterMinScore(images, minScore) ==
    SelectSeq(images, LAMBDA img : ScoreOf(img) >= minScore)

\* Array.prototype.sort with (a, b) => (b.weightedTotal||0) - (a.weightedTotal||0):
\* a stable sort, descending by score.
RECURSIVE InsertDesc(_, _)
\* An insertion that puts a candidate before the earlier ones of its score.
InsertDescUnstable(sorted, img) ==
    IF sorted = <<>> THEN <<img>>
    ELSE IF ScoreOf(Head(sorted)) > ScoreOf(img)
         THEN <<Head(sorted)>> \o InsertDesc(Tail(sorted), img)
         ELSE <<img>> \o sorted

InsertDesc(sorted, img) ==
    IF sorted = <<>> THEN <<img>>
    ELSE IF ScoreOf(Head(sorted)) >= ScoreOf(img)
         THEN <<Head(sorted)>> \o InsertDesc(Tail(sorted), img)
         ELSE <<img>> \o sorted

\* A sort that leaves the list as it is.
LeaveUnsorted(images) == images

RECURSIVE SortByScoreDesc(_)
SortByScoreDesc(images) ==
    IF images = <<>> THEN <<>>
    ELSE InsertDesc(SortByScoreDesc(SubSeq(images, 1, Len(images) - 1)),
                    images[Len(images)])

\* .slice(0, n) for n >= 0
SliceFirst(s, n) == SubSeq(s, 1, Min2(n, Len(s)))

\* A truncation that removes only the last element of the sorted list.
TruncateDropLast(sorted, topK) == SubSeq(sorted, 1, Len(sorted) - 1)

\* A truncation that keeps one element too many.
TruncateOneMore(sorted, topK) == SliceFirst(sorted, topK + 1)

\* .sort(...).slice(0, select.topK)
TruncateTopK(sorted, topK) == SliceFirst(sorted, topK)

\* The minimum-score filter with the comparison dropped.
ApplyMinScoreNoFilter(images, select) == images

ApplyMinScore(images, select) ==
    IF IsSome(select.minScore)
    THEN FilterMinScore(images, Val(select.minScore))
    ELSE images

ApplyTopK(images, select) ==
    IF IsSome(select.topK) /\ Len(images) > Val(select.topK)
    THEN TruncateTopK(SortByScoreDesc(images), Val(select.topK))
    ELSE images

selectImagesForIteration(items, select) ==
    IF Len(items) = 0 THEN <<>>
    ELSE ApplyTopK(ApplyMinScore(items, select), select)

\* let selectedImages = images: the two names are one array.
SameArray(images) == TRUE

\* let selectedImages = [...images]: whether selectedImages is the array
\* passed in.  The spread makes a new one.
SpreadIsInput(images) == FALSE

\* manifest.items once selectImagesForIteration has returned: sort()
\* reorders the array it is called on, which is the result of filter(), a
\* new array, when minScore is set, and selectedImages as first assigned
\* when it is not.
ItemsAfterSelect(items, select) ==
    IF Len(items) = 0 THEN items
    ELSE IF /\ SpreadIsInput(items)
            /\ ~IsSome(select.minScore)
            /\ IsSome(select.topK)
            /\ Len(items) > Val(select.topK)
         THEN SortByScoreDesc(items)
         ELSE items

\* The events selectImagesForIteration logs with runStore.log.
SelectLog(items, select) ==
    IF Len(items) = 0
    THEN <<[event |-> "iterate-no-images", step |-> None]>>
    ELSE (IF IsSome(select.minScore)
          THEN <<[event |-> "iterate-filter-score", step |-> None]>>
          ELSE <<>>)
         \o (IF IsSome(select.topK)
                  /\ Len(ApplyMinScore(items, select)) > Val(select.topK)
              THEN <<[event |-> "iterate-filter-topk", step |-> None]>>
              ELSE <<>>)

(***************************************************************************)
(* calculateWeightedTotal (tasks/critique.js).  Weights are in hundredths  *)
(* (0.6 is 60), the result is in hundredths too (72.0 is 7200): the        *)
(* quotient total / totalWeight does not depend on the unit of the weights.*)
(***************************************************************************)
\* A value of scores[criterion.id]: absent, a number, or a value of another
\* type (a string, null).
Absent == [kind |-> "absent", v |-> 0]
Num(n) == [kind |-> "number", v |-> n]
Other == [kind |-> "other", v |-> 0]

\* typeof score === 'number' && !isNaN(score)
IsNumeric(score) == score.kind = "number"

\* Math.round(x * 100) for x = num / den, den > 0: round half up.
RoundHundredths(num, den) == (200 * num + den) \div (2 * den)

\* The loop of calculateWeightedTotal: <<total, totalWeight>> after the
\* first n criteria of the rubric.
RECURSIVE WeightedSums(_, _, _)
\* The loop with the weight added for every criterion, answered or not.
WeightAllCriteria(scores, rubric, n) ==
    IF n = 0 THEN <<0, 0>>
    ELSE LET prev == WeightedSums(scores, rubric, n - 1)
             c == rubric[n]
         IN  IF IsNumeric(scores[c.id])
             THEN <<prev[1] + scores[c.id].v * c.weight, prev[2] + c.weight>>
             ELSE <<prev[1], prev[2] + c.weight>>

WeightedSums(scores, rubric, n) ==
    IF n = 0 THEN <<0, 0>>
    ELSE LET prev == WeightedSums(scores, rubric, n - 1)
             c == rubric[n]
         IN  IF IsNumeric(scores[c.id])
             THEN <<prev[1] + scores[c.id].v * c.weight, prev[2] + c.weight>>
             ELSE prev

calculateWeightedTotal(scores, rubric) ==
    LET sums == WeightedSums(scores, rubric, Len(rubric))
    IN  IF sums[2] > 0 THEN RoundHundredths(sums[1], sums[2]) ELSE 0

(***************************************************************************)
(* Models and their capabilities.  utils/providers.js is not part of the   *)
(* sources at hand: the capability of a model is a lookup per fully        *)
(* qualified identifier, here the image and vision aliases of the default  *)
(* configuration.                                                          *)
(***************************************************************************)
Dalle3 == [provider |-> "openai", name |-> "dall-e-3"]
Dalle2 == [provider |-> "openai", name |-> "dall-e-2"]
Imagen == [provider |-> "google", name |-> "imagen-3.0-generate-002"]
Gpt4o == [provider |-> "openai", name |-> "gpt-4o"]

ImageModels == {Dalle3, Dalle2, Imagen}
VisionModels == {Gpt4o}

isImageGenerationModel(model) == model \in ImageModels
isVisionModel(model) == model \in VisionModels

(***************************************************************************)
(* Screen names are strings over a small alphabet; the slug of a screen is *)
(* computed as generateImageFilename and generateImageId compute it.       *)
(***************************************************************************)
\* toLowerCase()
LowerOf(c) ==
    CASE c = "A" -> "a" [] c = "B" -> "b" [] c = "M" -> "m" [] c = "S" -> "s"
      [] OTHER -> c

\* [a-z0-9]
IsSlugChar(c) == c \in {"a", "b", "c", "e", "i", "m", "n", "r", "s", "1"}

\* .toLowerCase().replace(/[^a-z0-9]/g, '-')
Dashed(screen) ==
    [i \in 1..Len(screen) |->
        IF IsSlugChar(LowerOf(screen[i])) THEN LowerOf(screen[i]) ELSE "-"]

\* .replace(/-+/g, '-')
RECURSIVE Collapse(_)
Collapse(s) ==
    IF Len(s) <= 1 THEN s
    ELSE IF s[1] = "-" /\ s[2] = "-" THEN Collapse(Tail(s))
         ELSE <<s[1]>> \o Collapse(Tail(s))

\* .replace(/^-|-$/g, '')
TrimDashes(s) ==
    LET a == IF s /= <<>> /\ s[1] = "-" THEN Tail(s) ELSE s
    IN  IF a /= <<>> /\ a[Len(a)] = "-" THEN SubSeq(a, 1, Len(a) - 1) ELSE a

screenSlug(screen) == TrimDashes(Collapse(Dashed(screen)))

\* `screen-${screenSlug}_v${variant}.png` under generate/<provider>/
generateImagePath(provider, screen, variant) ==
    <<"generate", provider, screenSlug(screen), variant>>

\* `${screenSlug}_${provider}_v${variant}`
generateImageId(screen, provider, variant) ==
    <<screenSlug(screen), provider, variant>>

(***************************************************************************)
(* The limiter: const limit = pLimit(concurrency); every unit of a stage   *)
(* invocation is submitted as limit(() => unit).  A submitted unit waits   *)
(* in the limiter's queue and is started in submission order while fewer   *)
(* than `concurrency` units run.                                           *)
(***************************************************************************)
MaxConc == 2

Settled(pc) == pc \in {"ok", "failed"}
InFlightUnits == {i \in 1..Len(upc) : upc[i] /= "queued" /\ ~Settled(upc[i])}
InFlight == Cardinality(InFlightUnits)
AllSettled == \A i \in 1..Len(upc) : Settled(upc[i])

\* A limiter that lets one unit more than the limit run.
LimiterOffByOne(i) ==
    /\ i \in 1..Len(upc)
    /\ upc[i] = "queued"
    /\ \A j \in 1..(i - 1) : upc[j] /= "queued"
    /\ InFlight <= concurrency

\* Unit i is the next the limiter starts.
LimiterAdmits(i) ==
    /\ i \in 1..Len(upc)
    /\ upc[i] = "queued"
    /\ \A j \in 1..(i - 1) : upc[j] /= "queued"
    /\ InFlight < concurrency

(***************************************************************************)
(* generateTask and generateSingleImage (tasks/generate.js), with          *)
(* RunStore.saveImage, addImageToManifest and updateManifest.              *)
(***************************************************************************)
MaxVariants == 2
MaxUnits == 4

\* seed: seed ? seed + variant : undefined
UnitSeed(seed, variant) ==
    IF IsSome(seed) /\ Val(seed) /= 0 THEN Some(Val(seed) + variant) ELSE None

\* The loops of generateTask over resolvedModels, targetScreens and
\* 1..variants, skipping the models that are not image models.
GenUnits(in) ==
    LET ms == SelectSeq(in.models, isImageGenerationModel)
        S == Len(in.screens)
        V == in.variants
    IN  [k \in 1..(Len(ms) * S * V) |->
            [model |-> ms[((k - 1) \div (S * V)) + 1],
             screen |-> in.screens[(((k - 1) % (S * V)) \div V) + 1],
             variant |-> ((k - 1) % V) + 1,
             seed |-> UnitSeed(in.seed, ((k - 1) % V) + 1)]]

\* simulateGeneration: one plan entry per (image model, screen, variant).
GenPlanLength(in) ==
    Cardinality({m \in 1..Len(in.models) : isImageGenerationModel(in.models[m])})
        * Len(in.screens) * in.variants

\* The item addImageToManifest builds for a unit.
ManifestItem(u) ==
    [id |-> generateImageId(u.screen, u.model.provider, u.variant),
     screen |-> u.screen,
     model |-> u.model,
     variant |-> u.variant,
     path |-> generateImagePath(u.model.provider, u.screen, u.variant),
     seed |-> u.seed]

\* A serialization that keeps a property whose value is undefined.
JsonKeepsUndefined(item) == item

\* fs.writeJson then fs.readJson of an item: JSON.stringify leaves out a
\* property whose value is undefined (seed, when the unit has none).
JsonRoundTrip(item) ==
    IF "seed" \in DOMAIN item /\ item.seed = None
    THEN [f \in DOMAIN item \ {"seed"} |-> item[f]]
    ELSE item

JsonItems(items) == [k \in 1..Len(items) |-> JsonRoundTrip(items[k])]

\* What generateSingleImage returns when the unit succeeded.
UnitSuccess(u) ==
    [success |-> TRUE,
     imagePath |-> generateImagePath(u.model.provider, u.screen, u.variant),
     manifestItem |-> ManifestItem(u)]

\* A unit whose error is not caught rejects: allSettled yields no value for it.
Rejected == [rejected |-> TRUE]

\* A catch block that rethrows.
UnitFailureRethrown(u) == Rejected

\* What the catch block of generateSingleImage returns.
UnitFailure(u) ==
    [success |-> FALSE, model |-> u.model, screen |-> u.screen,
     variant |-> u.variant, error |-> "provider error"]

\* The manifest addImageToManifest starts from when the file does not exist.
FreshManifest == [exists |-> TRUE, items |-> <<>>, totalImages |-> None]
NoManifest == [exists |-> FALSE, items |-> <<>>, totalImages |-> None]

\* The values Promise.allSettled fulfilled with, in submission order:
\* result.status === 'fulfilled' && result.value.
FulfilledValues(outs) ==
    SelectSeq([i \in 1..Len(outs) |-> Val(outs[i])],
              LAMBDA r : "success" \in DOMAIN r)

\* A manifest that lists an item for every result, failed or not.
ItemsOfAllResults(rs) ==
    [i \in 1..Len(rs) |->
        IF rs[i].success THEN rs[i].manifestItem
        ELSE [model |-> rs[i].model, screen |-> rs[i].screen,
              variant |-> rs[i].variant]]

\* results.filter(r => r.success && r.manifestItem).map(r => r.manifestItem)
SuccessItems(rs) ==
    LET ok == SelectSeq(rs, LAMBDA r : r.success)
    IN  [i \in 1..Len(ok) |-> ok[i].manifestItem]

\* An image file written to `path` by unit i replaces the file at that path.
WriteImage(files, path, i) ==
    {f \in files : f.path /= path} \cup {[path |-> path, by |-> i]}

GenBegin ==
    /\ cmd = "generate" /\ tpc = "start"
    /\ IF ShortCircuit
       THEN /\ tpc' = "done"
            /\ retKind' = "plan"
            /\ results' = [i \in 1..GenPlanLength(genIn) |-> "planned"]
            /\ UNCHANGED <<units, upc, uout, ulocal>>
       ELSE /\ tpc' = "running"
            /\ units' = GenUnits(genIn)
            /\ upc' = [i \in 1..Len(GenUnits(genIn)) |-> "queued"]
            /\ uout' = [i \in 1..Len(GenUnits(genIn)) |-> None]
            /\ ulocal' = [i \in 1..Len(GenUnits(genIn)) |-> NoManifest]
            /\ UNCHANGED <<retKind, results>>
    /\ UNCHANGED <<cmd, dryRun, concurrency, providerCalls, genIn, manifest,
                   imageFiles, genRest>>

\* The limiter starts unit i: generateSingleImage runs up to its call of
\* callImageModel.
GenUnitStart(i) ==
    /\ cmd = "generate" /\ tpc = "running"
    /\ LimiterAdmits(i)
    /\ upc' = [upc EXCEPT ![i] = "call"]
    /\ providerCalls' = providerCalls + 1
    /\ UNCHANGED <<cmd, dryRun, concurrency, tpc, retKind, units, uout, ulocal,
                   results, genVars, genRest>>

\* callImageModel returns an image.
GenProviderReturns(i) ==
    /\ cmd = "generate" /\ tpc = "running"
    /\ i \in 1..Len(upc) /\ upc[i] = "call"
    /\ upc' = [upc EXCEPT ![i] = "save"]
    /\ UNCHANGED <<taskVars, units, uout, ulocal, results, genVars,
                   genRest>>

\* callImageModel throws: the catch block logs and returns a failure result.
GenProviderFails(i) ==
    /\ cmd = "generate" /\ tpc = "running"
    /\ i \in 1..Len(upc) /\ upc[i] = "call"
    /\ upc' = [upc EXCEPT ![i] = "failed"]
    /\ uout' = [uout EXCEPT ![i] = Some(UnitFailure(units[i]))]
    /\ UNCHANGED <<taskVars, units, ulocal, results, genVars, genRest>>

\* runStore.saveImage writes the image file.
GenSaveImage(i) ==
    /\ cmd = "generate" /\ tpc = "running"
    /\ i \in 1..Len(upc) /\ upc[i] = "save"
    /\ imageFiles' = WriteImage(imageFiles,
            generateImagePath(units[i].model.provider, units[i].screen,
                              units[i].variant), i)
    /\ upc' = [upc EXCEPT ![i] = "exists"]
    /\ UNCHANGED <<taskVars, units, uout, results, genIn, ulocal, manifest,
                   genRest>>

\* addImageToManifest: await fs.pathExists(manifestPath)
GenPathExists(i) ==
    /\ cmd = "generate" /\ tpc = "running"
    /\ i \in 1..Len(upc) /\ upc[i] = "exists"
    /\ IF manifest.exists
       THEN /\ upc' = [upc EXCEPT ![i] = "read"]
            /\ UNCHANGED ulocal
       ELSE /\ upc' = [upc EXCEPT ![i] = "write"]
            /\ ulocal' = [ulocal EXCEPT ![i] = FreshManifest]
    /\ UNCHANGED <<taskVars, units, uout, results, genIn, manifest, imageFiles,
                   genRest>>

\* addImageToManifest: manifest = await fs.readJson(manifestPath)
GenReadJson(i) ==
    /\ cmd = "generate" /\ tpc = "running"
    /\ i \in 1..Len(upc) /\ upc[i] = "read"
    /\ ulocal' = [ulocal EXCEPT ![i] = manifest]
    /\ upc' = [upc EXCEPT ![i] = "write"]
    /\ UNCHANGED <<taskVars, units, uout, results, genIn, manifest, imageFiles,
                   genRest>>

\* addImageToManifest: manifest.items.push(item); await fs.writeJson(...);
\* then generateSingleImage returns its success result.
GenWriteJson(i) ==
    /\ cmd = "generate" /\ tpc = "running"
    /\ i \in 1..Len(upc) /\ upc[i] = "write"
    /\ manifest' = [ulocal[i] EXCEPT
                        !.items = JsonItems(Append(@, ManifestItem(units[i])))]
    /\ upc' = [upc EXCEPT ![i] = "ok"]
    /\ uout' = [uout EXCEPT ![i] = Some(UnitSuccess(units[i]))]
    /\ UNCHANGED <<taskVars, units, results, genIn, ulocal, imageFiles,
                   genRest>>

\* Promise.allSettled(tasks) has resolved: the results are collected,
\* updateGenerateManifest assigns the summary over the manifest on disk and
\* generateTask returns.
GenFinish ==
    /\ cmd = "generate" /\ tpc = "running"
    /\ AllSettled
    /\ LET rs == FulfilledValues(uout)
       IN  /\ results' = rs
           /\ manifest' = [manifest EXCEPT
                               !.exists = TRUE,
                               !.totalImages = Some(Len(rs)),
                               !.items = JsonItems(SuccessItems(rs))]
    /\ tpc' = "done"
    /\ retKind' = "results"
    /\ UNCHANGED <<cmd, dryRun, concurrency, providerCalls, units, upc, uout,
                   genIn, ulocal, imageFiles, genRest>>

(***************************************************************************)
(* Idle values of the variable groups.                                     *)
(***************************************************************************)
IdleUnits ==
    /\ units = <<>> /\ upc = <<>> /\ uout = <<>> /\ ulocal = <<>>
    /\ results = <<>>

IdleGen ==
    /\ genIn = [models |-> <<>>, screens |-> <<>>, variants |-> 0, seed |-> None]
    /\ manifest = NoManifest
    /\ imageFiles = {}

IdleCrit ==
    /\ critIn = [images |-> <<>>, model |-> None, configModel |-> None]
    /\ critiqueFiles = {}
    /\ summary = None

IdleIter ==
    /\ iterIn = [passes |-> 0, select |-> [topK |-> None, minScore |-> None],
                 models |-> None, origin |-> <<>>, configModel |-> None]
    /\ pass = 0 /\ currentImages = <<>> /\ allResults = <<>>
    /\ passLog = <<>> /\ finalImages = <<>> /\ retPasses = 0

IdlePipe ==
    /\ pipeline = None /\ popts = None /\ plog = <<>>
    /\ stepResults = <<>> /\ pdisk = {} /\ pstep = 0 /\ pwarn = <<>>

IdleSel ==
    /\ selItems = <<>>
    /\ selPolicy = [topK |-> None, minScore |-> None]
    /\ selOut = <<>> /\ selAgain = <<>> /\ selPc = "idle"
    /\ selArgs = None

IdleWt ==
    /\ wtRubric = <<>> /\ wtScores = <<>> /\ wtOut = 0 /\ wtPc = "idle"

IdlePrompt ==
    /\ prIn = None /\ prOverrides = <<>> /\ prOut = "" /\ prPc = "idle"
    /\ prContext = ""

IdleTask ==
    /\ dryRun = FALSE /\ concurrency = 1 /\ tpc = "idle"
    /\ retKind = "none" /\ providerCalls = 0

(***************************************************************************)
(* generateTask: the inputs and the specification.                         *)
(***************************************************************************)
ScreenAb == <<"A", "b">>
ScreenB1 == <<"B", " ", "1">>
ScreenAbBang == <<"a", "b", "!">>

GenModelLists ==
    {<<Dalle3>>, <<Dalle3, Imagen>>, <<Gpt4o, Dalle3>>, <<Dalle3, Dalle2>>}
GenScreenLists == {<<ScreenAb>>, <<ScreenAb, ScreenB1>>, <<ScreenAb, ScreenAbBang>>}
SeedBase == 7
GenSeeds == {None, Some(0), Some(SeedBase)}

\* An item a previous generate invocation left in the manifest of the run.
OldItem ==
    JsonRoundTrip(ManifestItem([model |-> Imagen, screen |-> ScreenB1,
                                variant |-> 1, seed |-> None]))
OldManifest == [exists |-> TRUE, items |-> <<OldItem>>, totalImages |-> Some(1)]

GenInputs ==
    {in \in [models : GenModelLists, screens : GenScreenLists,
             variants : 1..MaxVariants, seed : GenSeeds] :
        Len(GenUnits(in)) <= MaxUnits}

InitGen ==
    /\ cmd = "generate"
    /\ dryRun \in BOOLEAN
    /\ concurrency \in 1..MaxConc
    /\ tpc = "start" /\ retKind = "none" /\ providerCalls = 0
    /\ IdleUnits
    /\ genIn \in GenInputs
    /\ manifest \in {NoManifest, OldManifest}
    /\ imageFiles = {}
    /\ IdleCrit /\ IdleIter /\ IdlePipe /\ IdleSel /\ IdleWt /\ IdlePrompt

NextGen ==
    \/ GenBegin
    \/ \E i \in 1..MaxUnits : GenUnitStart(i)
    \/ \E i \in 1..MaxUnits : GenProviderReturns(i)
    \/ \E i \in 1..MaxUnits : GenProviderFails(i)
    \/ \E i \in 1..MaxUnits : GenSaveImage(i)
    \/ \E i \in 1..MaxUnits : GenPathExists(i)
    \/ \E i \in 1..MaxUnits : GenReadJson(i)
    \/ \E i \in 1..MaxUnits : GenWriteJson(i)
    \/ GenFinish

SpecGen == InitGen /\ [][NextGen]_vars

(***************************************************************************)
(* The selector as a function: the inputs and the specification.           *)
(***************************************************************************)
ScoreValues == {None} \cup {Some(n) : n \in 0..MaxScore}

\* Candidate lists: the i-th candidate has id i and any score.
CandidateLists ==
    UNION {{[i \in 1..n |-> [id |-> i, weightedTotal |-> w[i]]] :
                w \in [1..n -> ScoreValues]} : n \in 0..MaxLen}

Policies ==
    [topK : {None} \cup {Some(k) : k \in 0..MaxTopK},
     minScore : {None} \cup {Some(m) : m \in 0..MaxScore}]

\* select.topK = 3; select.minScore = 70 (scores are in hundredths)
DefaultTopK == 3
DefaultMinScore == 7000
DefaultSelect == [topK |-> Some(DefaultTopK), minScore |-> Some(DefaultMinScore)]

NoCriterion == [topK |-> None, minScore |-> None]

\* The iterate command: the flags given are copied into an empty select,
\* which gets the defaults when it has no key.
CliSelect(flags) == IF flags = NoCriterion THEN DefaultSelect ELSE flags

\* executeIterateStep: step.select is copied when the step has one, else
\* the defaults are set.
StepSelect(stepSelect) ==
    IF IsSome(stepSelect) THEN Val(stepSelect) ELSE DefaultSelect

\* iterateTask: select = { topK: 3, minScore: 70 } when options.select is
\* undefined.
TaskSelect(select) == IF IsSome(select) THEN Val(select) ELSE DefaultSelect

\* The policy iterateTask applies for a caller and what it was given.
AppliedSelect(args) ==
    IF args.via = "cli" THEN TaskSelect(Some(CliSelect(Val(args.select))))
    ELSE TaskSelect(Some(StepSelect(args.select)))

\* The callers: the command with its flags, a pipeline step with or
\* without a select object.
SelectArgs ==
    {[via |-> "cli", select |-> Some(p)] : p \in Policies}
    \cup {[via |-> "step", select |-> sel] :
            sel \in {None} \cup {Some(p) : p \in Policies}}

InitSel ==
    /\ cmd = "select"
    /\ IdleTask /\ IdleUnits /\ IdleGen /\ IdleCrit /\ IdleIter /\ IdlePipe
    /\ IdleWt /\ IdlePrompt
    /\ selItems \in CandidateLists
    /\ selArgs \in SelectArgs
    /\ selPolicy = NoCriterion
    /\ selOut = <<>> /\ selAgain = <<>> /\ selPc = "resolve"

\* The caller builds the select object and iterateTask takes it.
ResolveSelect ==
    /\ cmd = "select" /\ selPc = "resolve"
    /\ selPolicy' = AppliedSelect(selArgs)
    /\ selPc' = "start"
    /\ UNCHANGED <<selRest, selItems, selOut, selAgain, selArgs,
                   wtVars>>

\* What a call of selectImagesForIteration leaves alone besides the
\* selector's own variables: everything but logs.jsonl.
selLeft ==
    <<taskVars, unitVars, genVars, critVars, iterVars, promptVars, wtVars,
      pipeline, popts, stepResults, pdisk, pstep, pwarn>>

\* selectImagesForIteration(manifest, select)
Select ==
    /\ cmd = "select" /\ selPc = "start"
    /\ selOut' = selectImagesForIteration(selItems, selPolicy)
    /\ selItems' = ItemsAfterSelect(selItems, selPolicy)
    /\ plog' = plog \o SelectLog(selItems, selPolicy)
    /\ selPc' = "selected"
    /\ UNCHANGED <<selLeft, selPolicy, selAgain, selArgs>>

\* selectImagesForIteration({items: <the first output>}, select)
SelectAgain ==
    /\ cmd = "select" /\ selPc = "selected"
    /\ selAgain' = selectImagesForIteration(selOut, selPolicy)
    /\ selOut' = ItemsAfterSelect(selOut, selPolicy)
    /\ plog' = plog \o SelectLog(selOut, selPolicy)
    /\ selPc' = "reselected"
    /\ UNCHANGED <<selLeft, selItems, selPolicy, selArgs>>

NextSel == ResolveSelect \/ Select \/ SelectAgain

SpecSel == InitSel /\ [][NextSel]_vars

(***************************************************************************)
(* calculateWeightedTotal: the inputs and the specification.               *)
(***************************************************************************)
CriterionIds == {"a", "b", "c"}
RubricAB == <<[id |-> "a", weight |-> 60], [id |-> "b", weight |-> 40]>>
RubricABC ==
    <<[id |-> "a", weight |-> 35], [id |-> "b", weight |-> 20],
      [id |-> "c", weight |-> 20]>>
RubricZero == <<[id |-> "a", weight |-> 0], [id |-> "c", weight |-> 10]>>
Rubrics == {<<>>, RubricAB, RubricABC, RubricZero}

ScoreInputs == {Absent, Other, Num(0), Num(60), Num(80), Num(85), Num(100)}

InitWt ==
    /\ cmd = "weighted"
    /\ IdleTask /\ IdleUnits /\ IdleGen /\ IdleCrit /\ IdleIter /\ IdlePipe
    /\ IdleSel /\ IdlePrompt
    /\ wtRubric \in Rubrics
    /\ wtScores \in [CriterionIds -> ScoreInputs]
    /\ wtOut = 0 /\ wtPc = "start"

ComputeWeightedTotal ==
    /\ cmd = "weighted" /\ wtPc = "start"
    /\ wtOut' = calculateWeightedTotal(wtScores, wtRubric)
    /\ wtPc' = "done"
    /\ UNCHANGED <<wtRest, wtRubric, wtScores>>

NextWt == ComputeWeightedTotal

SpecWt == InitWt /\ [][NextWt]_vars

(***************************************************************************)
(* Prompt templates (utils/templates.js): the overrides a command or a     *)
(* pipeline step loads and the template a task resolves.  A string is      *)
(* falsy when it is empty; an absent flag, field or key reads as "".       *)
(***************************************************************************)
PromptKinds == {"generate", "critique", "revise"}

\* The key the commands and the pipeline executor load the overrides of a
\* kind under: loadPromptOverrides(argv, 'gen' | 'critique' | 'revise') and
\* getPromptOverrides(step, 'gen' | 'critique' | 'revise').
OverrideKey(kind) == IF kind = "generate" THEN "gen" ELSE kind

\* getPromptTemplate(step, ...) reads overrides[step]; the tasks call it
\* with 'generate', 'critique' and 'revise'.
LookupKey(kind) == kind

\* fs.readFileSync(path, 'utf8'): the content, or None when it throws.
ReadFileSync(file) ==
    CASE file = "ok.txt" -> Some("file template")
      [] OTHER -> None

\* args[`${step}Prompt`] and args[`${step}PromptFile`]
Flag(args, step, suffix) ==
    IF <<step, suffix>> \in DOMAIN args THEN args[<<step, suffix>>] ELSE ""

\* loadPromptOverrides(args, step)
loadPromptOverrides(args, step) ==
    LET promptArg == Flag(args, step, "Prompt")
        promptFileArg == Flag(args, step, "PromptFile")
    IN  IF promptArg # "" THEN (step :> promptArg)
        ELSE IF promptFileArg # "" /\ IsSome(ReadFileSync(promptFileArg))
             THEN (step :> Val(ReadFileSync(promptFileArg)))
             ELSE <<>>

\* PipelineExecutor.getPromptOverrides(step, promptType)
getPromptOverrides(step, promptType) ==
    LET inline == Flag(step, promptType, "Prompt")
        file == Flag(step, promptType, "PromptFile")
    IN  IF inline # "" THEN (promptType :> inline)
        ELSE IF file # "" /\ IsSome(ReadFileSync(file))
             THEN (promptType :> Val(ReadFileSync(file)))
             ELSE <<>>

\* getDefaultPrompt(step)
getDefaultPrompt(step) ==
    CASE step = "generate" -> "default generate"
      [] step = "critique" -> "default critique"
      [] step = "revise" -> "default revise"
      [] OTHER -> ""

\* getPromptTemplate(step, config, overrides)
getPromptTemplate(step, config, overrides) ==
    IF LookupKey(step) \in DOMAIN overrides /\ overrides[LookupKey(step)] # ""
    THEN overrides[LookupKey(step)]
    ELSE IF config # "" THEN config
    ELSE getDefaultPrompt(step)

\* const VARIANT_DESCRIPTORS = [...]
VARIANT_DESCRIPTORS ==
    << "clean and minimal",
       "spacious with warm accents",
       "compact and efficient",
       "bold with high contrast",
       "soft with subtle shadows",
       "modern with sharp edges",
       "playful with rounded corners",
       "professional and structured" >>

\* getVariantDescriptor(variantNumber)
getVariantDescriptor(variantNumber) ==
    IF variantNumber < 1 \/ variantNumber > Len(VARIANT_DESCRIPTORS)
    THEN VARIANT_DESCRIPTORS[1]
    ELSE VARIANT_DESCRIPTORS[variantNumber]

\* buildTemplateContext: const { screen, variant = 1, ... } = options, and
\* variant_descriptor: getVariantDescriptor(variant)
VariantDescriptorOfContext(variant) ==
    getVariantDescriptor(IF IsSome(variant) THEN Val(variant) ELSE 1)

\* The variant numbers a call is made with: generateTask counts them from 1.
MaxVariantNumber == 10
VariantInputs == {None} \cup {Some(v) : v \in 1..MaxVariantNumber}

InlineInputs == {"", "inline template"}
FileInputs == {"", "ok.txt", "missing.txt"}
ConfigPrompts == {"", "config template"}

PromptArgs(kind) ==
    {(<<OverrideKey(kind), "Prompt">> :> i)
        @@ (<<OverrideKey(kind), "PromptFile">> :> f) :
        i \in InlineInputs, f \in FileInputs}

InitPrompt ==
    /\ cmd = "prompt"
    /\ IdleTask /\ IdleUnits /\ IdleGen /\ IdleCrit /\ IdleIter /\ IdlePipe
    /\ IdleSel /\ IdleWt
    /\ \E via \in {"cli", "step"}, kind \in PromptKinds,
          cfg \in ConfigPrompts :
          \E args \in PromptArgs(kind), variant \in VariantInputs :
            prIn = [via |-> via, kind |-> kind, args |-> args, config |-> cfg,
                    variant |-> variant]
    /\ prOverrides = <<>> /\ prOut = "" /\ prPc = "start"
    /\ prContext = ""

promptRest ==
    <<taskVars, unitVars, genVars, critVars, iterVars, pipeVars, selVars,
      wtVars>>

\* cmd/generate.js, cmd/critique.js, cmd/iterate.js: the handler loads the
\* overrides of its kind from argv.
PromptFromCli ==
    /\ cmd = "prompt" /\ prPc = "start" /\ prIn.via = "cli"
    /\ prOverrides' = loadPromptOverrides(prIn.args, OverrideKey(prIn.kind))
    /\ prPc' = "loaded"
    /\ UNCHANGED <<promptRest, prIn, prOut, prContext>>

\* executeGenerateStep, executeCritiqueStep, executeIterateStep: the executor
\* loads the overrides of the stage from the step.
PromptFromStep ==
    /\ cmd = "prompt" /\ prPc = "start" /\ prIn.via = "step"
    /\ prOverrides' = getPromptOverrides(prIn.args, OverrideKey(prIn.kind))
    /\ prPc' = "loaded"
    /\ UNCHANGED <<promptRest, prIn, prOut, prContext>>

\* generateSingleImage, critiqueSingleImage, reviseImage: the template
\* context and the template of the provider call.
PromptResolve ==
    /\ cmd = "prompt" /\ prPc = "loaded"
    /\ prContext' = VariantDescriptorOfContext(prIn.variant)
    /\ prOut' = getPromptTemplate(prIn.kind, prIn.config, prOverrides)
    /\ prPc' = "done"
    /\ UNCHANGED <<promptRest, prIn, prOverrides>>

NextPrompt == PromptFromCli \/ PromptFromStep \/ PromptResolve

SpecPrompt == InitPrompt /\ [][NextPrompt]_vars

(***************************************************************************)
(* critiqueTask and critiqueSingleImage (tasks/critique.js), with          *)
(* parseCritiqueResponse, attemptCritiqueRecovery, generateCritiqueSummary *)
(* and RunStore.saveCritique.                                              *)
(***************************************************************************)
MaxImages == 2

\* The rubric of the configuration in use (config.critique.rubric).
ConfigRubric == RubricAB

\* A critiqueTask that accepts every model.
RejectsNoModel(critiqueModel) == FALSE

\* if (!isVisionModel(critiqueModel)) throw new Error(...)
RejectsModel(critiqueModel) == ~isVisionModel(critiqueModel)

\* model || config?.critique?.model || 'openai:gpt-4o'
ResolveCritiqueModel(model, configModel) ==
    IF IsSome(model) THEN Val(model)
    ELSE IF IsSome(configModel) THEN Val(configModel)
    ELSE Gpt4o

\* A response text of the vision model, by what the parser can get from it:
\* `parsed` is the object JSON.parse yields for the brace-delimited part of
\* the text (None when it throws) with its `scores` property (None when
\* absent); `found` is, per rubric criterion, the number the recovery
\* pattern "?<id>"?\s*:?\s*(\d+) finds in the text.
NoScores == [c \in CriterionIds |-> Absent]
RespStrictAB ==
    [parsed |-> Some([scores |-> Some([NoScores EXCEPT !["a"] = Num(80),
                                                       !["b"] = Num(60)])]),
     found |-> [NoScores EXCEPT !["a"] = Num(80), !["b"] = Num(60)]]
RespStrictA ==
    [parsed |-> Some([scores |-> Some([NoScores EXCEPT !["a"] = Num(60)])]),
     found |-> [NoScores EXCEPT !["a"] = Num(60)]]
RespFlatJson ==
    [parsed |-> Some([scores |-> None]),
     found |-> [NoScores EXCEPT !["a"] = Num(85)]]
RespBroken ==
    [parsed |-> None, found |-> [NoScores EXCEPT !["a"] = Num(85)]]
RespProse == [parsed |-> None, found |-> NoScores]
\* A broken text that holds a number only for a criterion outside the rubric.
RespOffRubric ==
    [parsed |-> None, found |-> [NoScores EXCEPT !["c"] = Num(50)]]
CritResponses ==
    {RespStrictAB, RespStrictA, RespFlatJson, RespBroken, RespProse,
     RespOffRubric}

\* A recovery that gives up at once.
RecoveryGivesUp(resp, rubric) == None

\* attemptCritiqueRecovery: the scores found for the rubric criteria; null
\* (None) when there is none.
attemptCritiqueRecovery(resp, rubric) ==
    LET scores == [c \in CriterionIds |->
                      IF \E k \in 1..Len(rubric) : rubric[k].id = c
                      THEN resp.found[c] ELSE Absent]
    IN  IF \E c \in CriterionIds : scores[c] /= Absent
        THEN Some([scores |-> scores,
                   weightedTotal |-> Some(calculateWeightedTotal(scores, rubric)),
                   success |-> TRUE, recovered |-> TRUE])
        ELSE None

\* parseCritiqueResponse: the critique, or None when it throws.
parseCritiqueResponse(resp, rubric) ==
    IF IsSome(resp.parsed) /\ IsSome(Val(resp.parsed).scores)
    THEN LET scores == Val(Val(resp.parsed).scores)
         IN  Some([scores |-> scores,
                   weightedTotal |-> Some(calculateWeightedTotal(scores, rubric)),
                   success |-> TRUE, recovered |-> FALSE])
    ELSE attemptCritiqueRecovery(resp, rubric)

\* critique.image = imagePath; critique.model = model
CritiqueOf(parsedCritique, imagePath, model) ==
    [scores |-> parsedCritique.scores,
     weightedTotal |-> parsedCritique.weightedTotal,
     success |-> TRUE, recovered |-> parsedCritique.recovered,
     image |-> imagePath, model |-> model]

\* What the catch block of critiqueSingleImage returns.
CritiqueFailure(imagePath, message) ==
    [image |-> imagePath, error |-> message, success |-> FALSE]

\* The basename of an image path without its extension:
\* screen-<slug>_v<variant> or screen-<slug>_rev<pass>.
Basename(path) ==
    <<IF path[1] = "generate" THEN "v" ELSE "rev", path[3], path[4]>>

\* extractImageId: the basename, lower-cased, every character outside
\* [a-z0-9_-] replaced by '_' (a slug holds no such character).
extractImageId(path) == Basename(path)

\* saveCritique writes critique/<imageId>.json, replacing the file.
WriteCritique(files, id, i) ==
    {f \in files : f.id /= id} \cup {[id |-> id, by |-> i]}

\* A summary that ranks from 0.
LeaderboardFromZero(critiques) ==
    LET sorted == SortByScoreDesc(SelectSeq(critiques, LAMBDA c : c.success))
    IN  [k \in 1..Len(sorted) |->
            [rank |-> k - 1, image |-> sorted[k].image,
             model |-> sorted[k].model,
             weightedTotal |-> sorted[k].weightedTotal]]

\* generateCritiqueSummary: the successful critiques, sorted descending by
\* weighted total, ranked by position.
Leaderboard(critiques) ==
    LET sorted == SortByScoreDesc(SelectSeq(critiques, LAMBDA c : c.success))
    IN  [k \in 1..Len(sorted) |->
            [rank |-> k, image |-> sorted[k].image, model |-> sorted[k].model,
             weightedTotal |-> sorted[k].weightedTotal]]

CritBegin ==
    /\ cmd = "critique" /\ tpc = "start"
    /\ LET critiqueModel == ResolveCritiqueModel(critIn.model, critIn.configModel)
       IN  IF RejectsModel(critiqueModel)
           THEN /\ tpc' = "done" /\ retKind' = "raised"
                /\ UNCHANGED unitVars
           ELSE IF ShortCircuit
           THEN /\ tpc' = "done" /\ retKind' = "plan"
                /\ results' = critIn.images
                /\ UNCHANGED <<units, upc, uout, ulocal>>
           ELSE /\ tpc' = "running"
                /\ units' = [i \in 1..Len(critIn.images) |->
                                [imagePath |-> critIn.images[i],
                                 model |-> critiqueModel,
                                 response |-> None]]
                /\ upc' = [i \in 1..Len(critIn.images) |-> "queued"]
                /\ uout' = [i \in 1..Len(critIn.images) |-> None]
                /\ ulocal' = [i \in 1..Len(critIn.images) |-> None]
                /\ UNCHANGED <<retKind, results>>
    /\ UNCHANGED <<cmd, dryRun, concurrency, providerCalls, critVars, imageFiles,
                   critRest>>

\* The limiter starts unit i: critiqueSingleImage runs up to its call of
\* callVisionCritic.
CritUnitStart(i) ==
    /\ cmd = "critique" /\ tpc = "running"
    /\ LimiterAdmits(i)
    /\ upc' = [upc EXCEPT ![i] = "call"]
    /\ providerCalls' = providerCalls + 1
    /\ UNCHANGED <<cmd, dryRun, concurrency, tpc, retKind, units, uout, ulocal,
                   results, critVars, imageFiles, critRest>>

\* callVisionCritic returns a text; parseCritiqueResponse parses it or throws.
CritProviderReturns(i, resp) ==
    /\ cmd = "critique" /\ tpc = "running"
    /\ i \in 1..Len(upc) /\ upc[i] = "call"
    /\ LET parsed == parseCritiqueResponse(resp, ConfigRubric)
       IN  IF IsSome(parsed)
           THEN /\ upc' = [upc EXCEPT ![i] = "save"]
                /\ ulocal' = [ulocal EXCEPT ![i] =
                        Some(CritiqueOf(Val(parsed), units[i].imagePath,
                                        units[i].model))]
                /\ UNCHANGED uout
           ELSE /\ upc' = [upc EXCEPT ![i] = "failed"]
                /\ uout' = [uout EXCEPT ![i] =
                        Some(CritiqueFailure(units[i].imagePath,
                                             "Failed to parse critique response"))]
                /\ UNCHANGED ulocal
    /\ units' = [units EXCEPT ![i].response = Some(resp)]
    /\ UNCHANGED <<taskVars, results, critVars, imageFiles, critRest>>

\* callVisionCritic throws.
CritProviderFails(i) ==
    /\ cmd = "critique" /\ tpc = "running"
    /\ i \in 1..Len(upc) /\ upc[i] = "call"
    /\ upc' = [upc EXCEPT ![i] = "failed"]
    /\ uout' = [uout EXCEPT ![i] =
            Some(CritiqueFailure(units[i].imagePath, "provider error"))]
    /\ UNCHANGED <<taskVars, units, ulocal, results, critVars, imageFiles,
                   critRest>>

\* runStore.saveCritique(imageId, critique); the unit returns the critique.
CritSave(i) ==
    /\ cmd = "critique" /\ tpc = "running"
    /\ i \in 1..Len(upc) /\ upc[i] = "save"
    /\ critiqueFiles' = WriteCritique(critiqueFiles,
                                      extractImageId(units[i].imagePath), i)
    /\ upc' = [upc EXCEPT ![i] = "ok"]
    /\ uout' = [uout EXCEPT ![i] = ulocal[i]]
    /\ UNCHANGED <<taskVars, units, ulocal, results, critIn, summary, imageFiles,
                   critRest>>

\* Promise.allSettled(tasks) has resolved: the critiques are collected, the
\* summary is written and critiqueTask returns.
CritFinish ==
    /\ cmd = "critique" /\ tpc = "running"
    /\ AllSettled
    /\ results' = FulfilledValues(uout)
    /\ summary' = Some([leaderboard |-> Leaderboard(FulfilledValues(uout))])
    /\ tpc' = "done"
    /\ retKind' = "results"
    /\ UNCHANGED <<cmd, dryRun, concurrency, providerCalls, units, upc, uout,
                   ulocal, critIn, critiqueFiles, imageFiles, critRest>>

CritPaths ==
    {<<"generate", "openai", <<"a", "b">>, 1>>,
     <<"generate", "google", <<"a", "b">>, 1>>,
     <<"generate", "openai", <<"b", "-", "1">>, 2>>}

CritImageLists ==
    UNION {[1..n -> CritPaths] : n \in 0..MaxImages}

InitCrit ==
    /\ cmd = "critique"
    /\ dryRun \in BOOLEAN
    /\ concurrency \in 1..MaxConc
    /\ tpc = "start" /\ retKind = "none" /\ providerCalls = 0
    /\ IdleUnits
    /\ critIn \in [images : CritImageLists,
                   model : {None, Some(Gpt4o), Some(Dalle3)},
                   configModel : {None, Some(Gpt4o), Some(Dalle3)}]
    /\ critiqueFiles = {} /\ summary = None
    /\ IdleGen /\ IdleIter /\ IdlePipe /\ IdleSel /\ IdleWt /\ IdlePrompt

NextCrit ==
    \/ CritBegin
    \/ \E i \in 1..MaxImages : CritUnitStart(i)
    \/ \E i \in 1..MaxImages, resp \in CritResponses : CritProviderReturns(i, resp)
    \/ \E i \in 1..MaxImages : CritProviderFails(i)
    \/ \E i \in 1..MaxImages : CritSave(i)
    \/ CritFinish

SpecCrit == InitCrit /\ [][NextCrit]_vars

(***************************************************************************)
(* iterateTask, executeIterationPass, reviseImage and saveRevisedImage     *)
(* (tasks/iterate.js).  Scores and minScore are in hundredths, as the      *)
(* weighted totals are.                                                    *)
(***************************************************************************)
MaxPasses == 2

\* imageData.image || imageData.path
ImagePathOf(imageData) ==
    IF "image" \in DOMAIN imageData /\ imageData.image /= None
    THEN imageData.image
    ELSE IF "path" \in DOMAIN imageData THEN imageData.path ELSE None

\* extractModelFromImage: the model of the image data; else the directory
\* after `generate` in its path, as `<provider>:model`; else openai:gpt-4o.
extractModelFromImage(imageData) ==
    IF "model" \in DOMAIN imageData THEN imageData.model
    ELSE IF "path" \in DOMAIN imageData /\ imageData.path /= None
            /\ imageData.path[1] = "generate"
         THEN [provider |-> imageData.path[2], name |-> "model"]
         ELSE Gpt4o

MainScreen == <<"M", "a", "i", "n", " ", "S", "c", "r", "e", "e", "n">>

\* match[1].replace(/-/g, ' ')
Undash(slug) == [i \in 1..Len(slug) |-> IF slug[i] = "-" THEN " " ELSE slug[i]]

\* extractScreenFromData: the screen of the image data; else the part of the
\* basename between `screen-` and the first underscore, dashes replaced by
\* spaces; else 'Main Screen'.
extractScreenFromData(imageData) ==
    IF "screen" \in DOMAIN imageData THEN imageData.screen
    ELSE IF ImagePathOf(imageData) /= None /\ ImagePathOf(imageData)[3] /= <<>>
         THEN Undash(ImagePathOf(imageData)[3])
         ELSE MainScreen

\* saveRevisedImage: `screen-${screenSlug}_rev${pass}.png` under
\* iterate/<provider>/
revisedImagePath(provider, screen, p) ==
    <<"iterate", provider, screenSlug(screen), p>>

FileExists(files, path) == \E f \in files : f.path = path

\* An executeIterationPass that takes every image to be there.
NeverMissing(imageData, files) == FALSE

\* if (!imagePath || !await fs.pathExists(imagePath))
MissingImage(imageData, files) ==
    ImagePathOf(imageData) = None
        \/ ~FileExists(files, ImagePathOf(imageData))

\* The paths of the iterate-missing-image warnings of a pass, in the order
\* of the candidates.
RECURSIVE MissingWarnings(_, _)
MissingWarnings(images, files) ==
    IF images = <<>> THEN <<>>
    ELSE (IF MissingImage(Head(images), files)
          THEN <<ImagePathOf(Head(images))>> ELSE <<>>)
         \o MissingWarnings(Tail(images), files)

\* The revise units executeIterationPass submits for one candidate: none
\* when its image is missing, else one per image-capable model of
\* [].concat(models || extractModelFromImage(imageData)).
UnitsOfCandidate(imageData, models, p, files) ==
    LET imagePath == ImagePathOf(imageData)
        imageModels == IF IsSome(models) THEN Val(models)
                       ELSE <<extractModelFromImage(imageData)>>
        capable == SelectSeq(imageModels, isImageGenerationModel)
    IN  IF MissingImage(imageData, files) THEN <<>>
        ELSE [k \in 1..Len(capable) |->
                [originalImagePath |-> imagePath,
                 model |-> capable[k],
                 screen |-> extractScreenFromData(imageData),
                 pass |-> p]]

RECURSIVE ReviseUnits(_, _, _, _)
ReviseUnits(images, models, p, files) ==
    IF images = <<>> THEN <<>>
    ELSE UnitsOfCandidate(Head(images), models, p, files)
            \o ReviseUnits(Tail(images), models, p, files)

\* A catch block of reviseImage that rethrows.
ReviseFailureRethrown(u) == Rejected

\* What reviseImage returns when the revision succeeded.
ReviseSuccess(u) ==
    [success |-> TRUE,
     imagePath |-> revisedImagePath(u.model.provider, u.screen, u.pass),
     originalImagePath |-> u.originalImagePath,
     pass |-> u.pass]

\* What the catch block of reviseImage returns.
ReviseFailure(u) ==
    [success |-> FALSE, originalImagePath |-> u.originalImagePath,
     model |-> u.model, pass |-> u.pass, error |-> "provider error"]

\* results.filter(r => r.success && r.imagePath).map(r => r.imagePath)
SuccessPaths(rs) ==
    LET ok == SelectSeq(rs, LAMBDA r : r.success)
    IN  [i \in 1..Len(ok) |-> ok[i].imagePath]

\* A plan that counts every image as selected.
PlanOfAll(items, select, passes) ==
    [totalImages |-> Len(items), selectedImages |-> Len(items),
     passes |-> passes]

\* simulateIteration: the plan object of a dry run.
simulateIteration(items, select, passes) ==
    LET qualifying == ApplyMinScore(items, select)
        selectedCount ==
            IF IsSome(select.topK) /\ Len(qualifying) > Val(select.topK)
            THEN Val(select.topK) ELSE Len(qualifying)
    IN  [totalImages |-> Len(items), selectedImages |-> selectedCount,
         passes |-> passes]

\* What callVisionCritic does for one image of the critiqueTask that
\* iterateTask runs between passes: it throws, or returns a response text.
ProviderThrows == [throws |-> TRUE]
NestedOutcomes == {ProviderThrows, RespStrictAB}

\* The value critiqueSingleImage settles with for an image and an outcome.
CritiqueFor(imagePath, outcome, model) ==
    IF outcome = ProviderThrows
    THEN CritiqueFailure(imagePath, "provider error")
    ELSE LET parsed == parseCritiqueResponse(outcome, ConfigRubric)
         IN  IF IsSome(parsed)
             THEN CritiqueOf(Val(parsed), imagePath, model)
             ELSE CritiqueFailure(imagePath, "Failed to parse critique response")

\* The critique files after critiqueTask over `critiques`, written in order.
RECURSIVE SaveCritiques(_, _, _)
SaveCritiques(files, critiques, k) ==
    IF k > Len(critiques) THEN files
    ELSE SaveCritiques(
            IF critiques[k].success
            THEN WriteCritique(files, extractImageId(critiques[k].image), k)
            ELSE files,
            critiques, k + 1)

\* The record of the pass in execution, with one field changed by d.
LogStarted(log) ==
    [log EXCEPT ![Len(log)].started = @ + 1]
LogSucceeded(log) ==
    [log EXCEPT ![Len(log)].succeeded = @ + 1]

\* An iterateTask that critiques the revisions of its last pass too.
CritiqueAfterEveryPass(p, passes, revisedImages) == Len(revisedImages) > 0

\* if (pass < passes && revisedImages.length > 0)
CritiqueDue(p, passes, revisedImages) ==
    p < passes /\ Len(revisedImages) > 0

\* The log of the pass once critiqueTask was called on the images, and once
\* it returned the critiques.
LogCritiqued(log, images) ==
    [log EXCEPT ![Len(log)].critiqued = Some(images)]
LogCritiques(log, critiques) ==
    [log EXCEPT ![Len(log)].critiques = critiques]

\* iterateTask up to its loop: the dry-run plan, or the first selection.
IterBegin ==
    /\ cmd = "iterate" /\ tpc = "start"
    /\ IF ShortCircuit
       THEN /\ tpc' = "done"
            /\ retKind' = "plan"
            /\ results' = <<simulateIteration(iterIn.origin, iterIn.select,
                                              iterIn.passes)>>
            /\ UNCHANGED <<pass, currentImages>>
       ELSE /\ tpc' = "loop"
            /\ pass' = 1
            /\ currentImages' =
                    selectImagesForIteration(iterIn.origin, iterIn.select)
            /\ UNCHANGED <<retKind, results>>
    /\ UNCHANGED <<cmd, dryRun, concurrency, providerCalls, units, upc, uout,
                   ulocal, imageFiles, critiqueFiles, summary, iterIn,
                   allResults, passLog, finalImages, retPasses, iterRest>>

\* The loop body up to Promise.allSettled: executeIterationPass submits the
\* revise units of the pass; with no unit it returns [] and the loop breaks.
IterPassStart ==
    /\ cmd = "iterate" /\ tpc = "loop" /\ pass <= iterIn.passes
    /\ LET us == ReviseUnits(currentImages, iterIn.models, pass, imageFiles)
       IN  /\ units' = us
           /\ upc' = [i \in 1..Len(us) |-> "queued"]
           /\ uout' = [i \in 1..Len(us) |-> None]
           /\ ulocal' = [i \in 1..Len(us) |-> None]
           /\ tpc' = IF Len(us) = 0 THEN "return" ELSE "revising"
    /\ passLog' = Append(passLog,
            [pass |-> pass, started |-> 0, succeeded |-> 0,
             pool |-> currentImages, critiqued |-> None, critiques |-> <<>>,
             missing |-> MissingWarnings(currentImages, imageFiles)])
    /\ UNCHANGED <<cmd, dryRun, concurrency, retKind, providerCalls, results,
                   imageFiles, critiqueFiles, summary, iterIn, pass,
                   currentImages, allResults, finalImages, retPasses, iterRest>>

\* The limiter starts unit i: reviseImage runs up to its call of
\* callImageModel.
IterUnitStart(i) ==
    /\ cmd = "iterate" /\ tpc = "revising"
    /\ LimiterAdmits(i)
    /\ upc' = [upc EXCEPT ![i] = "call"]
    /\ providerCalls' = providerCalls + 1
    /\ passLog' = LogStarted(passLog)
    /\ UNCHANGED <<cmd, dryRun, concurrency, tpc, retKind, units, uout, ulocal,
                   results, imageFiles, critiqueFiles, summary, iterIn, pass,
                   currentImages, allResults, finalImages, retPasses, iterRest>>

\* callImageModel returns the revised image: saveRevisedImage writes the file
\* and reviseImage returns its success result.
IterProviderReturns(i) ==
    /\ cmd = "iterate" /\ tpc = "revising"
    /\ i \in 1..Len(upc) /\ upc[i] = "call"
    /\ imageFiles' = WriteImage(imageFiles,
            revisedImagePath(units[i].model.provider, units[i].screen,
                             units[i].pass), i)
    /\ upc' = [upc EXCEPT ![i] = "ok"]
    /\ uout' = [uout EXCEPT ![i] = Some(ReviseSuccess(units[i]))]
    /\ passLog' = LogSucceeded(passLog)
    /\ UNCHANGED <<taskVars, units, ulocal, results, critiqueFiles, summary,
                   iterIn, pass, currentImages, allResults, finalImages, retPasses,
                   iterRest>>

\* callImageModel throws: the catch block logs and returns a failure result.
IterProviderFails(i) ==
    /\ cmd = "iterate" /\ tpc = "revising"
    /\ i \in 1..Len(upc) /\ upc[i] = "call"
    /\ upc' = [upc EXCEPT ![i] = "failed"]
    /\ uout' = [uout EXCEPT ![i] = Some(ReviseFailure(units[i]))]
    /\ UNCHANGED <<taskVars, units, ulocal, results, imageFiles, critiqueFiles,
                   summary, iterVars, iterRest>>

\* Promise.allSettled(tasks) has resolved: executeIterationPass returns the
\* fulfilled values; the loop breaks when there is none, else it records
\* them and goes on to the critique or to the next pass.
IterPassEnd ==
    /\ cmd = "iterate" /\ tpc = "revising"
    /\ AllSettled
    /\ LET passResults == FulfilledValues(uout)
           revisedImages == SuccessPaths(passResults)
       IN  IF Len(passResults) = 0
           THEN /\ tpc' = "return"
                /\ UNCHANGED <<allResults, pass>>
           ELSE /\ allResults' = allResults \o passResults
                /\ IF CritiqueDue(pass, iterIn.passes, revisedImages)
                   THEN tpc' = "critique" /\ UNCHANGED pass
                   ELSE tpc' = "loop" /\ pass' = pass + 1
    /\ UNCHANGED <<cmd, dryRun, concurrency, retKind, providerCalls, unitVars,
                   imageFiles, critiqueFiles, summary, iterIn, currentImages,
                   passLog, finalImages, retPasses, iterRest>>

\* critiqueTask(revisedImages, spec, {config, ...}) between two passes, then
\* the selection of the candidates of the next pass.  The critic model is
\* config.critique.model; critiqueTask throws when it is not a vision model
\* and iterateTask does not catch.  The critique files are written in
\* submission order, one of the orders the limiter allows.
IterCritique ==
    /\ cmd = "iterate" /\ tpc = "critique"
    /\ LET revisedImages == SuccessPaths(FulfilledValues(uout))
           critiqueModel == ResolveCritiqueModel(None, iterIn.configModel)
       IN  IF ~isVisionModel(critiqueModel)
           THEN /\ tpc' = "done" /\ retKind' = "raised"
                /\ passLog' = LogCritiqued(passLog, revisedImages)
                /\ UNCHANGED <<providerCalls, critiqueFiles, summary, pass,
                               currentImages>>
           ELSE \E outcomes \in [1..Len(revisedImages) -> NestedOutcomes] :
                LET critiques ==
                        [i \in 1..Len(revisedImages) |->
                            CritiqueFor(revisedImages[i], outcomes[i],
                                        critiqueModel)]
                    selected ==
                        selectImagesForIteration(critiques, iterIn.select)
                IN  /\ providerCalls' = providerCalls + Len(revisedImages)
                    /\ critiqueFiles' = SaveCritiques(critiqueFiles, critiques, 1)
                    /\ summary' = Some([leaderboard |-> Leaderboard(critiques)])
                    /\ currentImages' = selected
                    /\ passLog' = LogCritiques(
                            LogCritiqued(passLog, revisedImages), critiques)
                    /\ IF Len(selected) = 0
                       THEN tpc' = "return" /\ UNCHANGED pass
                       ELSE tpc' = "loop" /\ pass' = pass + 1
                    /\ UNCHANGED retKind
    /\ UNCHANGED <<cmd, dryRun, concurrency, unitVars, imageFiles, iterIn,
                   allResults, finalImages, retPasses, iterRest>>

\* An iterateTask that returns without its last log entry.
LogNothing(log) == log

\* runStore.log('info', 'iterate-complete', ...)
LogComplete(log) ==
    Append(log, [event |-> "iterate-complete", step |-> None])

\* What the return of iterateTask leaves alone outside the task.
iterReturnRest ==
    <<genIn, manifest, critIn, pipeline, popts, stepResults, pdisk, pstep,
      pwarn, selVars, wtVars, promptVars>>

\* The loop is over, by its condition or by a break: iterate-complete is
\* logged and iterateTask returns.
IterReturn ==
    /\ cmd = "iterate"
    /\ tpc = "return" \/ (tpc = "loop" /\ pass > iterIn.passes)
    /\ plog' = LogComplete(plog)
    /\ results' = allResults
    /\ finalImages' = SuccessPaths(allResults)
    /\ retPasses' = iterIn.passes
    /\ tpc' = "done"
    /\ retKind' = "results"
    /\ UNCHANGED <<cmd, dryRun, concurrency, providerCalls, units, upc, uout,
                   ulocal, imageFiles, critiqueFiles, summary, iterIn, pass,
                   currentImages, allResults, passLog, iterReturnRest>>

\* iterateTask: the inputs and the specification.
OriginItem1 ==
    ManifestItem([model |-> Dalle3, screen |-> ScreenAb, variant |-> 1,
                  seed |-> None])
OriginItem2 ==
    ManifestItem([model |-> Imagen, screen |-> ScreenB1, variant |-> 1,
                  seed |-> None])
\* A second variant of the screen of the first item, by the same model.
OriginItem3 ==
    ManifestItem([model |-> Dalle3, screen |-> ScreenAb, variant |-> 2,
                  seed |-> None])
\* An item whose image file is no longer on disk.
OriginLost ==
    ManifestItem([model |-> Dalle2, screen |-> ScreenAb, variant |-> 2,
                  seed |-> None])
\* An item with neither an image nor a path.
OriginNoPath ==
    [id |-> <<"x">>, screen |-> ScreenAb, model |-> Dalle3, variant |-> 1]
\* Critiques of an earlier critique step, as resolveStepOrigin passes them.
OriginCritique1 ==
    CritiqueFor(OriginItem1.path, RespStrictAB, Gpt4o)
OriginCritique2 ==
    CritiqueFor(OriginItem2.path, RespStrictA, Gpt4o)

IterOrigins ==
    {<<>>, <<OriginItem1>>, <<OriginItem1, OriginItem2>>, <<OriginLost>>,
     <<OriginItem1, OriginLost>>, <<OriginCritique1>>,
     <<OriginItem1, OriginItem3>>, <<OriginNoPath, OriginItem2>>,
     <<OriginCritique2, OriginCritique1>>}

\* select: the default {topK: 3, minScore: 70}, top 1, and no criterion.
IterPolicies ==
    {[topK |-> Some(3), minScore |-> Some(7000)],
     [topK |-> Some(1), minScore |-> None],
     [topK |-> None, minScore |-> None]}

IterModelLists ==
    {None, Some(<<Dalle3>>), Some(<<Gpt4o, Dalle3>>), Some(<<Dalle3, Imagen>>)}

OriginFiles ==
    {[path |-> OriginItem1.path, by |-> 0], [path |-> OriginItem2.path, by |-> 0],
     [path |-> OriginItem3.path, by |-> 0]}

\* The inputs: at most two revise units in the first pass; with two image
\* models (the units double from pass to pass) one candidate and two passes.
IterInputs ==
    {in \in [passes : 1..MaxPasses, select : IterPolicies,
             models : IterModelLists, origin : IterOrigins,
             configModel : {None, Some(Dalle3)}] :
        /\ Len(ReviseUnits(in.origin, in.models, 1, OriginFiles)) <= 2
        /\ in.models = Some(<<Dalle3, Imagen>>) =>
                (in.passes <= 2 /\ Len(in.origin) <= 1)}

InitIter ==
    /\ cmd = "iterate"
    /\ dryRun \in BOOLEAN
    /\ concurrency \in 1..MaxConc
    /\ tpc = "start" /\ retKind = "none" /\ providerCalls = 0
    /\ IdleUnits
    /\ iterIn \in IterInputs
    /\ pass = 0 /\ currentImages = <<>> /\ allResults = <<>>
    /\ passLog = <<>> /\ finalImages = <<>> /\ retPasses = 0
    /\ genIn = [models |-> <<>>, screens |-> <<>>, variants |-> 0, seed |-> None]
    /\ manifest = NoManifest
    /\ imageFiles = OriginFiles
    /\ IdleCrit /\ IdlePipe /\ IdleSel /\ IdleWt /\ IdlePrompt

NextIter ==
    \/ IterBegin
    \/ IterPassStart
    \/ \E i \in 1..Len(upc) : IterUnitStart(i)
    \/ \E i \in 1..Len(upc) : IterProviderReturns(i)
    \/ \E i \in 1..Len(upc) : IterProviderFails(i)
    \/ IterPassEnd
    \/ IterCritique
    \/ IterReturn

SpecIter == InitIter /\ [][NextIter]_vars

\* Every provider call returns or throws, and the continuation of a settled
\* promise runs: a step of iterateTask that can be taken is taken.
SpecIterFair == SpecIter /\ WF_vars(NextIter)

(***************************************************************************)
(* The run command (cmd/run.js), loadPipeline and validatePipeline, and    *)
(* PipelineExecutor (utils/pipeline.js).  A stage a step dispatches is     *)
(* taken as a whole here: it returns its result, or it raises, and it      *)
(* writes its artifacts under the directory of its type in the run         *)
(* directory.                                                              *)
(***************************************************************************)
MaxSteps == 2

StepTypes == {"generate", "critique", "iterate"}

\* Error values of the validation; None is "no error".
NoError == None
ErrNoName == Some("Pipeline must have a name")
ErrNoSteps == Some("Pipeline must have a steps array")
ErrEmptySteps == Some("Pipeline must have at least one step")
ErrNoId == Some("Each step must have an id")
ErrDuplicateId == Some("Duplicate step id")
ErrNoRun == Some("Step must have a 'run' property")
ErrBadRun == Some("Step has invalid run type")
ErrNotFound == Some("Pipeline file not found")

\* A validation that never finds a duplicate.
NoDuplicateCheck(stepIds, step) == FALSE

\* stepIds.has(step.id)
SeenId(stepIds, step) == Val(step.id) \in stepIds

\* The loop of validatePipeline from step k on, stepIds being the ids of the
\* steps before k: the first error, or none.
RECURSIVE ValidateSteps(_, _, _)
ValidateSteps(steps, k, stepIds) ==
    IF k > Len(steps) THEN NoError
    ELSE LET step == steps[k]
         IN  IF ~IsSome(step.id) THEN ErrNoId
             ELSE IF SeenId(stepIds, step) THEN ErrDuplicateId
             ELSE IF ~IsSome(step.run) THEN ErrNoRun
             ELSE IF Val(step.run) \notin StepTypes THEN ErrBadRun
             ELSE ValidateSteps(steps, k + 1, stepIds \cup {Val(step.id)})

\* console.warn(`Warning: Step ${step.id} references unknown step: ...`)
Warning(step) == [step |-> Val(step.id), from |-> Val(step.from)]

\* if (step.from && !stepIds.has(step.from)), stepIds holding the ids of the
\* steps before this one and, added above the test, the id of the step.
WarnsFrom(stepIds, step) ==
    IsSome(step.from) /\ Val(step.from) \notin (stepIds \cup {Val(step.id)})

\* The warnings of the loop of validatePipeline from step k on, up to the
\* step it throws at.
RECURSIVE ValidateWarnings(_, _, _)
ValidateWarnings(steps, k, stepIds) ==
    IF k > Len(steps) THEN <<>>
    ELSE LET step == steps[k]
         IN  IF ~IsSome(step.id) THEN <<>>
             ELSE IF SeenId(stepIds, step) THEN <<>>
             ELSE IF ~IsSome(step.run) THEN <<>>
             ELSE IF Val(step.run) \notin StepTypes THEN <<>>
             ELSE (IF WarnsFrom(stepIds, step) THEN <<Warning(step)>>
                   ELSE <<>>)
                  \o ValidateWarnings(steps, k + 1,
                                      stepIds \cup {Val(step.id)})

\* What loadPipeline writes to the console.
loadPipelineWarnings(file) ==
    IF file = None \/ ~IsSome(Val(file).name) \/ ~IsSome(Val(file).steps)
    THEN <<>>
    ELSE ValidateWarnings(Val(Val(file).steps), 1, {})

validatePipeline(p) ==
    IF ~IsSome(p.name) THEN ErrNoName
    ELSE IF ~IsSome(p.steps) THEN ErrNoSteps
    ELSE IF Len(Val(p.steps)) = 0 THEN ErrEmptySteps
    ELSE ValidateSteps(Val(p.steps), 1, {})

\* loadPipeline: the error it throws, or none; `file` is None when there is
\* no file at the path.
loadPipeline(file) ==
    IF file = None THEN ErrNotFound ELSE validatePipeline(Val(file))

\* The steps of the pipeline the executor was constructed with.
Steps == Val(Val(pipeline).steps)

\* A log entry of logs.jsonl: the event, and the step id it is about.
LogEntry(event, id) == [event |-> event, step |-> id]

\* The catch block of execute without its log entry.
LogErrorDropped(log) == log

\* runStore.log('error', 'pipeline-error', ...) in the catch block of execute
LogError(log) == Append(log, LogEntry("pipeline-error", None))

\* this.stepResults.get(id): the result recorded for the id, None when none.
ResultOf(rs, id) ==
    IF \E j \in 1..Len(rs) : rs[j].id = id
    THEN Some((rs[CHOOSE j \in 1..Len(rs) : rs[j].id = id]).result)
    ELSE None

\* What the stage of step k returns, for the spec and the input it was
\* called with.  generateTask returns {results, ...}: here one success with
\* its image path and manifest item, and one failure.  critiqueTask returns
\* {critiques, ...}: one critique per image.  iterateTask returns
\* {results, ...}: one revision per origin item.
StepImage(k) == <<"generate", "openai", <<"a", "b">>, k>>

GenerateStageResults(k) ==
    <<[success |-> TRUE, imagePath |-> StepImage(k),
       manifestItem |-> [path |-> StepImage(k), model |-> Dalle3]],
      [success |-> FALSE, error |-> "provider error"]>>

CritiqueStageCritiques(k, images) ==
    [i \in 1..Len(images) |->
        [image |-> images[i], success |-> TRUE, model |-> Gpt4o,
         weightedTotal |-> Some(7200)]]

IterateStageResults(k, items) ==
    [i \in 1..Len(items) |->
        [success |-> TRUE,
         imagePath |-> <<"iterate", "openai", <<"a", "b">>, k>>,
         originalImagePath |-> ImagePathOf(items[i]), pass |-> 1]]

StageResult(run, k, spec, input) ==
    IF run = "critique"
    THEN [run |-> run, by |-> k, spec |-> spec, input |-> input,
          critiques |-> CritiqueStageCritiques(k, input)]
    ELSE [run |-> run, by |-> k, spec |-> spec, input |-> input,
          results |-> IF run = "generate" THEN GenerateStageResults(k)
                      ELSE IterateStageResults(k, input)]

\* fromResult.results and fromResult.critiques are set.
HasResults(r) == "results" \in DOMAIN r
HasCritiques(r) == "critiques" \in DOMAIN r

\* The images of step.images and the manifest at step.origin.
ExplicitImages == <<<<"generate", "google", <<"a", "b">>, 1>>>>
ExplicitOrigin ==
    <<[path |-> <<"generate", "google", <<"a", "b">>, 1>>, model |-> Imagen]>>

\* The spec files a pipeline can name that are on disk, and the spec file
\* of the run directory.
SpecFiles == {"step.md", "global.md"}
InputSpec == "input/spec.md"

\* parseSpec(specPath): the spec read from the file, None when fs.readFile
\* throws.
parseSpec(specPath, opts) ==
    IF specPath \in SpecFiles \/ (specPath = InputSpec /\ opts.inputSpec)
    THEN Some([path |-> specPath])
    ELSE None

\* A loadStepSpec that prefers the global --spec to the spec of the step.
loadStepSpecGlobalFirst(step, opts) ==
    IF IsSome(opts.spec) THEN parseSpec(Val(opts.spec), opts)
    ELSE IF IsSome(step.spec) THEN parseSpec(Val(step.spec), opts)
    ELSE IF opts.inputSpec THEN parseSpec(InputSpec, opts)
    ELSE None

\* loadStepSpec: step.spec, the global --spec, or input/spec.md of the run
\* directory when it exists; None when it throws.
loadStepSpec(step, opts) ==
    IF IsSome(step.spec) THEN parseSpec(Val(step.spec), opts)
    ELSE IF IsSome(opts.spec) THEN parseSpec(Val(opts.spec), opts)
    ELSE IF opts.inputSpec THEN parseSpec(InputSpec, opts)
    ELSE None

\* this.stepResults.get(step.from) when step.from is set, else None.
FromResult(step, rs) ==
    IF IsSome(step.from) THEN ResultOf(rs, Val(step.from)) ELSE None

\* fromResult.results.filter(r => r.success && r.manifestItem)
\*     .map(r => r.manifestItem)
SuccessManifestItems(rs) ==
    LET ok == SelectSeq(rs, LAMBDA r : r.success /\ "manifestItem" \in DOMAIN r)
    IN  [i \in 1..Len(ok) |-> ok[i].manifestItem]

\* A resolveStepImages that looks at step.images before step.from.
resolveStepImagesExplicitFirst(step, rs) ==
    IF step.input THEN Some(ExplicitImages)
    ELSE IF IsSome(FromResult(step, rs)) /\ HasResults(Val(FromResult(step, rs)))
    THEN Some(SuccessPaths(Val(FromResult(step, rs)).results))
    ELSE None

\* resolveStepImages: the paths of the successful results of step.from when
\* it has results, else step.images; None when it throws.
resolveStepImages(step, rs) ==
    IF IsSome(FromResult(step, rs)) /\ HasResults(Val(FromResult(step, rs)))
    THEN Some(SuccessPaths(Val(FromResult(step, rs)).results))
    ELSE IF step.input THEN Some(ExplicitImages)
    ELSE None

\* resolveStepOrigin: the critiques of step.from, or the manifest items of
\* its successful results, else the manifest at step.origin; None when it
\* throws.
resolveStepOrigin(step, rs) ==
    IF IsSome(FromResult(step, rs)) /\ HasCritiques(Val(FromResult(step, rs)))
    THEN Some(Val(FromResult(step, rs)).critiques)
    ELSE IF IsSome(FromResult(step, rs)) /\ HasResults(Val(FromResult(step, rs)))
    THEN Some(SuccessManifestItems(Val(FromResult(step, rs)).results))
    ELSE IF step.input THEN Some(ExplicitOrigin)
    ELSE None

\* The input the stage of the step is called with: the images of a critique
\* step, the origin items of an iterate step, nothing for a generate step.
StepInput(step, rs) ==
    IF Val(step.run) = "critique" THEN resolveStepImages(step, rs)
    ELSE IF Val(step.run) = "iterate" THEN resolveStepOrigin(step, rs)
    ELSE Some(<<>>)

\* executeStep up to the call of the task: TRUE when the stage is
\* dispatched, FALSE when the step raises before.
StepDispatches(step, opts, rs) ==
    /\ IsSome(step.run) /\ Val(step.run) \in StepTypes
    /\ IsSome(loadStepSpec(step, opts))
    /\ IsSome(StepInput(step, rs))

\* The artifacts on disk after the stage of step k has written its own: a
\* stage writes under <runDir>/<type>/, over what is there.
WriteArtifacts(disk, run, k) ==
    {a \in disk : a.dir /= run} \cup {[dir |-> run, by |-> k]}

\* The handler of the run command up to the executor: loadPipeline, which
\* throws into the handler's catch; the dry-run print, after which the
\* handler returns; otherwise execute() up to its loop.
RunLoad ==
    /\ cmd = "run" /\ tpc = "start"
    /\ pwarn' = loadPipelineWarnings(pipeline)
    /\ IF loadPipeline(pipeline) /= NoError
       THEN /\ tpc' = "handler-catch"
            /\ UNCHANGED <<retKind, plog, pstep>>
       ELSE IF ShortCircuit
       THEN /\ tpc' = "done" /\ retKind' = "printed"
            /\ UNCHANGED <<plog, pstep>>
       ELSE /\ tpc' = "executing"
            /\ pstep' = 1
            /\ plog' = Append(plog, LogEntry("pipeline-start", None))
            /\ UNCHANGED retKind
    /\ UNCHANGED <<cmd, dryRun, concurrency, providerCalls, pipeline, popts,
                   stepResults, pdisk, pipeRest>>

\* An executeStep that does not keep the result of the step.
SetNothing(rs, id, result) == rs

\* this.stepResults.set(step.id, result)
SetStepResult(rs, id, result) == Append(rs, [id |-> id, result |-> result])

\* executeStep: the step-start entry, then the step's spec and inputs are
\* resolved; the stage is dispatched, or the step raises.
PipeStepStart ==
    /\ cmd = "run" /\ tpc = "executing" /\ pstep <= Len(Steps)
    /\ plog' = Append(plog, LogEntry("step-start", Steps[pstep].id))
    /\ tpc' = IF StepDispatches(Steps[pstep], popts, stepResults)
              THEN "stage" ELSE "catch"
    /\ UNCHANGED <<cmd, dryRun, concurrency, retKind, providerCalls, pipeline,
                   popts, stepResults, pdisk, pstep, pwarn, pipeRest>>

\* The task of the step returns: its artifacts are on disk, its result is
\* recorded under the step id and step-complete is logged.
PipeStageReturns ==
    /\ cmd = "run" /\ tpc = "stage"
    /\ LET step == Steps[pstep]
       IN  /\ pdisk' = WriteArtifacts(pdisk, Val(step.run), pstep)
           /\ stepResults' = SetStepResult(stepResults, Val(step.id),
                                           StageResult(Val(step.run), pstep,
                                               Val(loadStepSpec(step, popts)),
                                               Val(StepInput(step, stepResults))))
           /\ plog' = Append(plog, LogEntry("step-complete", step.id))
    /\ providerCalls' = providerCalls + 1
    /\ pstep' = pstep + 1
    /\ tpc' = "executing"
    /\ UNCHANGED <<cmd, dryRun, concurrency, retKind, pipeline, popts,
                   pwarn, pipeRest>>

\* The task of the step raises, before or after it wrote artifacts.
PipeStageRaises(wrote) ==
    /\ cmd = "run" /\ tpc = "stage"
    /\ IF wrote
       THEN /\ pdisk' = WriteArtifacts(pdisk, Val(Steps[pstep].run), pstep)
            /\ providerCalls' = providerCalls + 1
       ELSE UNCHANGED <<pdisk, providerCalls>>
    /\ tpc' = "catch"
    /\ UNCHANGED <<cmd, dryRun, concurrency, retKind, pipeline, popts, plog,
                   stepResults, pstep, pwarn, pipeRest>>

\* The catch block of execute: pipeline-error is logged, the error rethrown.
PipeCatch ==
    /\ cmd = "run" /\ tpc = "catch"
    /\ plog' = LogError(plog)
    /\ tpc' = "rethrown"
    /\ retKind' = "raised"
    /\ UNCHANGED <<cmd, dryRun, concurrency, providerCalls, pipeline, popts,
                   stepResults, pdisk, pstep, pwarn, pipeRest>>

\* The loop of execute is over: pipeline-complete is logged, execute returns
\* and so does the handler.
PipeComplete ==
    /\ cmd = "run" /\ tpc = "executing" /\ pstep > Len(Steps)
    /\ plog' = Append(plog, LogEntry("pipeline-complete", None))
    /\ tpc' = "done"
    /\ retKind' = "results"
    /\ UNCHANGED <<cmd, dryRun, concurrency, providerCalls, pipeline, popts,
                   stepResults, pdisk, pstep, pwarn, pipeRest>>

\* The catch block of the handler: the message is printed, process.exit(1).
RunCatch ==
    /\ cmd = "run" /\ tpc \in {"handler-catch", "rethrown"}
    /\ tpc' = "done"
    /\ retKind' = "exit1"
    /\ UNCHANGED <<cmd, dryRun, concurrency, providerCalls, pipeVars, pipeRest>>

\* The run command: the pipeline files and the specification.
StepGenA == [id |-> Some("a"), run |-> Some("generate"), from |-> None,
             input |-> FALSE, spec |-> None]
StepGenB == [id |-> Some("b"), run |-> Some("generate"), from |-> None,
             input |-> FALSE, spec |-> None]
StepCritiqueFromA == [id |-> Some("b"), run |-> Some("critique"),
                      from |-> Some("a"), input |-> FALSE, spec |-> None]
StepCritiqueImages == [id |-> Some("a"), run |-> Some("critique"),
                       from |-> None, input |-> TRUE, spec |-> None]
StepIterateFromA == [id |-> Some("b"), run |-> Some("iterate"),
                     from |-> Some("a"), input |-> FALSE, spec |-> None]
StepIterateOrigin == [id |-> Some("a"), run |-> Some("iterate"),
                      from |-> None, input |-> TRUE, spec |-> None]
StepNoId == [id |-> None, run |-> Some("generate"), from |-> None,
             input |-> FALSE, spec |-> None]
StepNoRun == [id |-> Some("b"), run |-> None, from |-> None, input |-> FALSE, spec |-> None]
StepBadRun == [id |-> Some("b"), run |-> Some("deploy"), from |-> None,
               input |-> FALSE, spec |-> None]
\* A critique step with both a from reference and explicit images.
StepCritiqueFromAOrImages == [id |-> Some("b"), run |-> Some("critique"),
                              from |-> Some("a"), input |-> TRUE,
                              spec |-> None]
\* Steps that name their own spec: a file on disk, and one that is not.
StepGenOwnSpec == [id |-> Some("a"), run |-> Some("generate"), from |-> None,
                   input |-> FALSE, spec |-> Some("step.md")]
StepGenLostSpec == [id |-> Some("b"), run |-> Some("generate"), from |-> None,
                    input |-> FALSE, spec |-> Some("gone.md")]

\* A step whose from names the step itself.
StepCritiqueFromSelf == [id |-> Some("b"), run |-> Some("critique"),
                         from |-> Some("b"), input |-> TRUE, spec |-> None]

StepTemplates ==
    {StepGenA, StepGenB, StepCritiqueFromA, StepCritiqueImages,
     StepCritiqueFromSelf,
     StepGenOwnSpec, StepGenLostSpec, StepCritiqueFromAOrImages,
     StepIterateFromA, StepIterateOrigin, StepNoId, StepNoRun, StepBadRun}

StepLists == UNION {[1..n -> StepTemplates] : n \in 0..MaxSteps}

PipelineFiles ==
    {None} \cup
    {Some([name |-> n, steps |-> s]) :
        n \in {None, Some("p")}, s \in {None} \cup {Some(l) : l \in StepLists}}

InitPipe ==
    /\ cmd = "run"
    /\ dryRun \in BOOLEAN
    /\ concurrency = 1
    /\ tpc = "start" /\ retKind = "none" /\ providerCalls = 0
    /\ pipeline \in PipelineFiles
    /\ popts \in [spec : {None, Some("global.md")}, inputSpec : BOOLEAN]
    /\ plog = <<>> /\ stepResults = <<>> /\ pdisk = {} /\ pstep = 0
    /\ pwarn = <<>>
    /\ IdleUnits /\ IdleGen /\ IdleCrit /\ IdleIter /\ IdleSel /\ IdleWt /\ IdlePrompt

NextPipe ==
    \/ RunLoad
    \/ PipeStepStart
    \/ PipeStageReturns
    \/ \E wrote \in BOOLEAN : PipeStageRaises(wrote)
    \/ PipeCatch
    \/ PipeComplete
    \/ RunCatch

SpecPipe == InitPipe /\ [][NextPipe]_vars

(***************************************************************************)
(* The tasks and the run command together: the command that runs is drawn  *)
(* at the start.                                                           *)
(***************************************************************************)
InitAll == InitGen \/ InitCrit \/ InitIter \/ InitPipe

NextAll == NextGen \/ NextCrit \/ NextIter \/ NextPipe

SpecAll == InitAll /\ [][NextAll]_vars

(***************************************************************************)
(* Properties.                                                             *)
(***************************************************************************)
ItemsOnDisk == {manifest.items[k] : k \in 1..Len(manifest.items)}

\* C2: once every addImageToManifest call of a generateTask invocation has
\* returned, generate/manifest.json holds the item of each of them: no
\* append is lost, whatever the interleaving.
C2_NoLostAppend ==
    (cmd = "generate" /\ tpc = "running" /\ AllSettled) =>
        \A i \in 1..Len(units) :
            upc[i] = "ok" =>
                JsonRoundTrip(ManifestItem(units[i])) \in ItemsOnDisk

\* C4: generateTask settles all units: when it has returned, every unit has
\* run and settled, it returned results (it did not raise), one result per
\* submitted unit in submission order, a success result for a unit whose
\* provider call succeeded and a failure result naming model, screen,
\* variant and error for a unit whose provider call failed.
C4_SettleAll ==
    (cmd = "generate" /\ tpc = "done" /\ ~dryRun) =>
        /\ retKind = "results"
        /\ AllSettled
        /\ providerCalls = Len(units)
        /\ Len(results) = Len(units)
        /\ \A i \in 1..Len(units) :
            /\ upc[i] = "ok" =>
                /\ results[i].success
                /\ results[i].manifestItem.model = units[i].model
                /\ results[i].manifestItem.screen = units[i].screen
                /\ results[i].manifestItem.variant = units[i].variant
            /\ upc[i] = "failed" =>
                /\ ~results[i].success
                /\ DOMAIN results[i] =
                       {"success", "model", "screen", "variant", "error"}
                /\ results[i].model = units[i].model
                /\ results[i].screen = units[i].screen
                /\ results[i].variant = units[i].variant

C4_Witness ==
    /\ cmd = "generate" /\ tpc = "done" /\ ~dryRun
    /\ Len(units) >= 3
    /\ \E i, j \in 1..Len(units) : upc[i] = "failed" /\ upc[j] = "ok" /\ i < j
    /\ Len(results) = Len(units)

\* C5: the selector returns at most topK candidates when topK is set, and
\* no candidate scoring below the minimum score when one is set.
C5_SelectorBounds ==
    selPc \in {"selected", "reselected"} =>
        /\ IsSome(selPolicy.topK) => Len(selOut) <= Val(selPolicy.topK)
        /\ IsSome(selPolicy.minScore) =>
            \A k \in 1..Len(selOut) :
                ScoreOf(selOut[k]) >= Val(selPolicy.minScore)

C5_Witness ==
    /\ selPc = "selected"
    /\ IsSome(selPolicy.topK) /\ IsSome(selPolicy.minScore)
    /\ Len(selItems) = 3 /\ Val(selPolicy.topK) = 1
    /\ Len(selOut) = 1
    /\ \E k \in 1..Len(selItems) :
        ScoreOf(selItems[k]) < Val(selPolicy.minScore)
    /\ Cardinality({k \in 1..Len(selItems) :
            ScoreOf(selItems[k]) >= Val(selPolicy.minScore)}) = 2

\* C6: the selector is idempotent: applied to its own output with the same
\* policy it returns that output, same elements in the same order.
C6_Idempotent == selPc = "reselected" => selAgain = selOut

C6_Witness ==
    /\ selPc = "reselected"
    /\ IsSome(selPolicy.topK) /\ Len(selItems) > Val(selPolicy.topK)
    /\ Len(selOut) >= 2
    /\ selOut /= SubSeq(selItems, 1, Len(selOut))
    /\ selAgain = selOut

\* The rubric criteria with a numeric score, and the exact weighted sums
\* over them.
Answered ==
    {k \in 1..Len(wtRubric) : wtScores[wtRubric[k].id].kind = "number"}

RECURSIVE SumOver(_, _)
SumOver(S, f) ==
    IF S = {} THEN 0
    ELSE LET k == CHOOSE x \in S : TRUE
         IN  f[k] + SumOver(S \ {k}, f)

AnsweredTotal ==
    SumOver(Answered,
            [k \in 1..Len(wtRubric) |->
                wtScores[wtRubric[k].id].v * wtRubric[k].weight])
AnsweredWeight ==
    SumOver(Answered, [k \in 1..Len(wtRubric) |-> wtRubric[k].weight])

\* C10: the weighted total is the weight-normalized mean over exactly the
\* answered rubric criteria, rounded to 2 decimals (the value in hundredths
\* is within half a hundredth of the exact mean), and 0 when no criterion
\* is answered; a:0.6, b:0.4 with a=80, b=60 gives 72.00, and 80.00 with b
\* omitted.
C10_WeightedTotal ==
    wtPc = "done" =>
        /\ Answered = {} => wtOut = 0
        /\ AnsweredWeight > 0 =>
            /\ 2 * (wtOut * AnsweredWeight - 100 * AnsweredTotal)
                   <= AnsweredWeight
            /\ 2 * (100 * AnsweredTotal - wtOut * AnsweredWeight)
                   <= AnsweredWeight
        /\ (wtRubric = RubricAB /\ wtScores["a"] = Num(80)
                /\ wtScores["b"] = Num(60)) => wtOut = 7200
        /\ (wtRubric = RubricAB /\ wtScores["a"] = Num(80)
                /\ wtScores["b"] = Absent) => wtOut = 8000

C10_Witness ==
    /\ wtPc = "done"
    /\ wtRubric = RubricAB
    /\ wtScores["a"] = Num(80) /\ wtScores["b"] = Absent
    /\ wtOut = 8000

\* JSON.parse of the brace-delimited part succeeds and the object has scores.
StrictlyParsed(resp) == IsSome(resp.parsed) /\ IsSome(Val(resp.parsed).scores)

\* The rubric criteria for which the text holds a number.
RecoverableIds(resp, rubric) ==
    {c \in CriterionIds :
        /\ \E k \in 1..Len(rubric) : rubric[k].id = c
        /\ resp.found[c].kind = "number"}

\* C11: a critique unit whose response was not strictly parsed succeeds with
\* recovered = true and the numbers found for the rubric criteria as its
\* scores when there is at least one, and is a per-unit failure otherwise;
\* the stage does not raise.
C11_Recovery ==
    cmd = "critique" =>
        /\ units /= <<>> => retKind /= "raised"
        /\ \A i \in 1..Len(units) :
            (/\ Settled(upc[i])
             /\ IsSome(units[i].response)
             /\ ~StrictlyParsed(Val(units[i].response))) =>
                LET resp == Val(units[i].response)
                    ids == RecoverableIds(resp, ConfigRubric)
                    out == Val(uout[i])
                IN  IF ids /= {}
                    THEN /\ out.success /\ out.recovered
                         /\ \A c \in ids : out.scores[c] = resp.found[c]
                    ELSE ~out.success

C11_Witness ==
    /\ cmd = "critique" /\ tpc = "done" /\ retKind = "results"
    /\ Len(units) = 2
    /\ units[1].response = Some(RespBroken) /\ Val(uout[1]).recovered
    /\ Val(uout[1]).scores["a"] = Num(85)
    /\ units[2].response = Some(RespOffRubric) /\ ~Val(uout[2]).success

\* addImageToManifest of unit i writes manifest.json in this step.
AppendsItem(i) ==
    /\ cmd = "generate"
    /\ i \in 1..Len(upc) /\ upc[i] = "write" /\ upc'[i] = "ok"

\* The last item of generate/manifest.json as re-read after the step.
ReadBack == manifest'.items[Len(manifest'.items)]

\* The items before the last are the items the unit had read, in order.
KeepsOrder(i) ==
    /\ Len(manifest'.items) = Len(ulocal[i].items) + 1
    /\ SubSeq(manifest'.items, 1, Len(ulocal[i].items)) = ulocal[i].items

\* The properties of an item that hold undefined.
UndefinedKeys(item) == {f \in DOMAIN item \cap {"seed"} : item[f] = None}

\* C12 as stated: the item re-read from generate/manifest.json after an
\* append is deep-equal to the item appended, and it comes last, after the
\* items that were there.
C12_RoundTripDeepEqual ==
    [][\A i \in 1..MaxUnits :
        AppendsItem(i) =>
            /\ ReadBack = Val(uout'[i]).manifestItem
            /\ KeepsOrder(i)]_vars

\* C12: the item re-read after an append has the properties of the item
\* appended that hold a defined value, with the same values, and no other
\* property (seed is absent when the unit has no seed); it comes last, after
\* the items that were there, in their order.
C12_RoundTrip ==
    [][\A i \in 1..MaxUnits :
        AppendsItem(i) =>
            LET item == Val(uout'[i]).manifestItem
            IN  /\ DOMAIN ReadBack = DOMAIN item \ UndefinedKeys(item)
                /\ \A f \in DOMAIN ReadBack : ReadBack[f] = item[f]
                /\ KeepsOrder(i)]_vars

C12_Witness ==
    /\ cmd = "generate" /\ tpc = "running"
    /\ Len(manifest.items) >= 2
    /\ \E i \in 1..Len(units) :
        /\ upc[i] = "ok" /\ units[i].seed = None
        /\ manifest.items[Len(manifest.items)] =
                JsonRoundTrip(ManifestItem(units[i]))
        /\ "seed" \notin DOMAIN manifest.items[Len(manifest.items)]

\* The units that succeeded, in submission order.
OkUnits ==
    SelectSeq([i \in 1..Len(units) |-> i], LAMBDA i : upc[i] = "ok")

\* An item of the manifest is about the unit.
ItemOfUnit(item, u) ==
    item.model = u.model /\ item.screen = u.screen /\ item.variant = u.variant

\* C13: after generateTask has returned, the items of generate/manifest.json
\* are the items of the units of this invocation that succeeded, one per
\* unit in submission order, and there is no item for a unit that failed.
C13_ManifestSuccessOnly ==
    (cmd = "generate" /\ tpc = "done" /\ ~dryRun) =>
        /\ Len(manifest.items) = Len(OkUnits)
        /\ \A k \in 1..Len(OkUnits) :
            manifest.items[k] = JsonRoundTrip(ManifestItem(units[OkUnits[k]]))
        /\ \A i \in 1..Len(units) :
            upc[i] = "failed" =>
                ~\E k \in 1..Len(manifest.items) :
                    ItemOfUnit(manifest.items[k], units[i])

C13_Witness ==
    /\ cmd = "generate" /\ tpc = "done" /\ ~dryRun
    /\ \E i, j \in 1..Len(units) : upc[i] = "failed" /\ upc[j] = "ok"
    /\ Len(manifest.items) >= 2
    /\ Len(manifest.items) < Len(units)

\* The override supplied for the kind: the inline one when there is one,
\* else the content of the file when it can be read, else none.
SuppliedOverride ==
    LET inline == Flag(prIn.args, OverrideKey(prIn.kind), "Prompt")
        file == Flag(prIn.args, OverrideKey(prIn.kind), "PromptFile")
    IN  IF inline # "" THEN Some(inline)
        ELSE IF file # "" THEN ReadFileSync(file)
        ELSE None

\* The template of a call of one of the kinds follows the precedence.
PrecedenceFor(kinds) ==
    (cmd = "prompt" /\ prPc = "done" /\ prIn.kind \in kinds) =>
        prOut = IF IsSome(SuppliedOverride) THEN Val(SuppliedOverride)
                ELSE IF prIn.config # "" THEN prIn.config
                ELSE getDefaultPrompt(prIn.kind)

\* The precedence holds for the critique and the revise prompts.
PrecedenceCritiqueRevise == PrecedenceFor({"critique", "revise"})

\* C14: for each prompt kind (generate, critique, revise) the template of a
\* provider call is the inline override when one is supplied by a flag or a
\* pipeline step, else the file override, else the prompt of
\* abe.config.json, else the built-in default.
C14_OverridePrecedence == PrecedenceFor(PromptKinds)

\* A generate prompt with an inline override has been resolved.
C14_Witness ==
    /\ cmd = "prompt" /\ prPc = "done" /\ prIn.kind = "generate"
    /\ Flag(prIn.args, "gen", "Prompt") # ""
    /\ prOut # Flag(prIn.args, "gen", "Prompt")

\* The model critiqueTask resolved from its option and the config.
ResolvedCritiqueModel ==
    IF IsSome(critIn.model) THEN Val(critIn.model)
    ELSE IF IsSome(critIn.configModel) THEN Val(critIn.configModel)
    ELSE Gpt4o

\* C15: when the resolved critique model has no vision capability,
\* critiqueTask raises before any work: no unit exists, no provider call
\* is made, no critique file and no summary is written, nothing is returned.
C15_NonVisionRejected ==
    (cmd = "critique" /\ tpc # "start"
        /\ ResolvedCritiqueModel \notin VisionModels) =>
        /\ tpc = "done" /\ retKind = "raised"
        /\ units = <<>> /\ results = <<>>
        /\ providerCalls = 0
        /\ critiqueFiles = {} /\ summary = None

\* critiqueTask has raised for a non-vision model taken from the config,
\* with images to critique and no dry run.
C15_Witness ==
    /\ cmd = "critique" /\ tpc = "done" /\ retKind = "raised"
    /\ critIn.model = None /\ critIn.configModel = Some(Dalle3)
    /\ Len(critIn.images) > 0 /\ ~dryRun

\* The step-start and step-complete entries of logs.jsonl, in order.
StepEvents ==
    SelectSeq(plog, LAMBDA e : e.event \in {"step-start", "step-complete"})

\* C16: execute runs the steps in declared order, one at a time: the step
\* entries of the log alternate step-start, step-complete along the declared
\* steps; the stage of a step runs only after its step-start, with every
\* earlier step complete; a step-complete entry exists only for a step
\* whose result is recorded under its id.
C16_StepsInOrder ==
    (cmd = "run" /\ Len(plog) > 0) =>
        /\ \A k \in 1..Len(StepEvents) :
            StepEvents[k] =
                IF k % 2 = 1
                THEN LogEntry("step-start", Steps[(k + 1) \div 2].id)
                ELSE LogEntry("step-complete", Steps[k \div 2].id)
        /\ Len(stepResults) = Len(StepEvents) \div 2
        /\ \A k \in 1..Len(stepResults) :
            stepResults[k].id = Val(Steps[k].id)
        /\ tpc = "stage" =>
            /\ Len(StepEvents) = 2 * pstep - 1
            /\ plog[Len(plog)] = LogEntry("step-start", Steps[pstep].id)
        /\ (tpc = "executing" /\ pstep <= Len(Steps)) =>
            Len(StepEvents) = 2 * (pstep - 1)

\* Two steps have completed and the second stage ran after the first.
C16_Witness ==
    /\ cmd = "run" /\ tpc = "done" /\ retKind = "results"
    /\ Len(stepResults) = 2
    /\ Len(StepEvents) = 4
    /\ stepResults[1].id # stepResults[2].id

\* The last pass whose results iterateTask accumulated (0 when none).
LastCompletedPass ==
    IF allResults = <<>> THEN 0 ELSE allResults[Len(allResults)].pass

\* The results of pass p among the accumulated ones.
ResultsOfPass(p) == SelectSeq(allResults, LAMBDA r : r.pass = p)

\* C17: the finalImages iterateTask returns are exactly the image paths of
\* the successful revisions of the most recently completed pass; those of
\* earlier passes are not among them.
C17_FinalImagesOfLastPass ==
    (cmd = "iterate" /\ tpc = "done" /\ retKind = "results") =>
        finalImages = SuccessPaths(ResultsOfPass(LastCompletedPass))

\* iterateTask has returned after two passes that both had a success.
C17_Witness ==
    /\ cmd = "iterate" /\ tpc = "done" /\ retKind = "results"
    /\ LastCompletedPass = 2
    /\ SuccessPaths(ResultsOfPass(1)) # <<>>
    /\ SuccessPaths(ResultsOfPass(2)) # <<>>

\* Pass p has ended and the critique between it and the next pass, when one
\* was due, has been called.
PassIsOver(p) ==
    p < Len(passLog) \/ tpc \in {"loop", "return", "done"}

\* The images of a list of critiques.
ImagesOf(critiques) == [i \in 1..Len(critiques) |-> critiques[i].image]

\* C18: after pass p the critique stage is called if and only if p < passes
\* and a revision of pass p succeeded; it is called on exactly the paths of
\* the successful revisions of pass p; the selection over its critiques is
\* the candidate pool of pass p+1; when that selection is empty there is no
\* pass p+1.
C18_CritiqueBetweenPasses ==
    cmd = "iterate" =>
        \A p \in 1..Len(passLog) :
            LET e == passLog[p]
                revised == SuccessPaths(ResultsOfPass(p))
                selected ==
                    selectImagesForIteration(e.critiques, iterIn.select)
            IN  /\ IsSome(e.critiqued) =>
                    /\ p < iterIn.passes /\ revised # <<>>
                    /\ Val(e.critiqued) = revised
                    /\ e.critiques # <<>> => ImagesOf(e.critiques) = revised
                    /\ p < Len(passLog) => passLog[p + 1].pool = selected
                    /\ selected = <<>> => Len(passLog) = p
                /\ (PassIsOver(p) /\ p < iterIn.passes /\ revised # <<>>) =>
                    IsSome(e.critiqued)

\* A second pass runs on the selection over the critiques of the first.
C18_Witness ==
    /\ cmd = "iterate" /\ Len(passLog) = 2
    /\ IsSome(passLog[1].critiqued)
    /\ passLog[2].pool # <<>>
    /\ passLog[2].started > 0

\* The critique of a pass selected nothing and iterateTask returned.
C18_WitnessEmptyPool ==
    /\ cmd = "iterate" /\ tpc = "done" /\ retKind = "results"
    /\ Len(passLog) = 1 /\ passLog[1].critiques # <<>>
    /\ selectImagesForIteration(passLog[1].critiques, iterIn.select) = <<>>

\* Unit i of generateTask has written its image file.
HasWrittenImage(i) == upc[i] \in {"exists", "read", "write", "ok"}

\* The path unit i of generateTask writes its image to.
ImagePathOfUnit(i) ==
    generateImagePath(units[i].model.provider, units[i].screen,
                      units[i].variant)

\* C19: within one generateTask invocation two distinct units (model,
\* screen, variant) never write the same image path, so the file a unit
\* wrote is never replaced by a sibling unit.
C19_OwnOutputFile ==
    cmd = "generate" =>
        \A i, j \in 1..Len(units) :
            (i # j /\ HasWrittenImage(i) /\ HasWrittenImage(j)) =>
                ImagePathOfUnit(i) # ImagePathOfUnit(j)

\* Two models of one provider have both succeeded for the same screen and
\* variant, and one image file is left.
C19_Witness ==
    /\ cmd = "generate" /\ tpc = "done"
    /\ \E i, j \in 1..Len(units) :
        /\ i # j /\ upc[i] = "ok" /\ upc[j] = "ok"
        /\ units[i].model # units[j].model
        /\ units[i].screen = units[j].screen
        /\ units[i].variant = units[j].variant
        /\ ImagePathOfUnit(i) = ImagePathOfUnit(j)

\* The spec file the step is to be run with, by the order of resolution;
\* None when there is none.
SpecFileFor(step) ==
    IF IsSome(step.spec) THEN step.spec
    ELSE IF IsSome(popts.spec) THEN popts.spec
    ELSE IF popts.inputSpec THEN Some(InputSpec)
    ELSE None

\* step-start of the current step is the last entry of the log.
StepJustStarted ==
    /\ tpc \in {"stage", "catch"}
    /\ plog[Len(plog)] = LogEntry("step-start", Steps[pstep].id)

\* C20: the spec of a pipeline step is the step's own spec when set, else
\* the global spec override, else input/spec.md of the run directory when
\* it exists; when there is none the step fails and no stage is dispatched.
C20_StepSpecOrder ==
    (cmd = "run" /\ Len(plog) > 0) =>
        /\ \A k \in 1..Len(stepResults) :
            Some(stepResults[k].result.spec.path) = SpecFileFor(Steps[k])
        /\ tpc = "stage" => IsSome(SpecFileFor(Steps[pstep]))
        /\ (StepJustStarted /\ SpecFileFor(Steps[pstep]) = None) =>
            tpc = "catch"

\* A step ran with its own spec although a global one was given, and a
\* later step without a spec of its own ran with the global one.
C20_Witness ==
    /\ cmd = "run" /\ Len(stepResults) = 2
    /\ IsSome(popts.spec)
    /\ IsSome(Steps[1].spec) /\ Steps[2].spec = None
    /\ stepResults[1].result.spec.path = Val(Steps[1].spec)
    /\ stepResults[2].result.spec.path = Val(popts.spec)

\* A step with no spec at all has failed before its stage.
C20_WitnessNoSpec ==
    /\ cmd = "run" /\ tpc = "catch" /\ StepJustStarted
    /\ Val(Steps[pstep].run) = "generate"
    /\ SpecFileFor(Steps[pstep]) = None

\* A step has run with input/spec.md of the run directory.
C20_WitnessInputSpec ==
    /\ cmd = "run" /\ Len(stepResults) > 0
    /\ stepResults[1].result.spec.path = InputSpec

\* C21: when the run command is given --spec, every step of the pipeline
\* is executed with that spec, a step that declares its own spec included.
C21_GlobalSpecOverrides ==
    (cmd = "run" /\ Len(plog) > 0 /\ IsSome(popts.spec)) =>
        \A k \in 1..Len(stepResults) :
            stepResults[k].result.spec.path = Val(popts.spec)

\* The candidates that survive the minimum-score filter, in input order.
Survivors ==
    IF IsSome(selPolicy.minScore)
    THEN SelectSeq(selItems,
                   LAMBDA img : ScoreOf(img) >= Val(selPolicy.minScore))
    ELSE selItems

\* Survivor i ranks before survivor j: a higher score, or the same score
\* and an earlier position.
RanksBefore(i, j) ==
    \/ ScoreOf(Survivors[i]) > ScoreOf(Survivors[j])
    \/ ScoreOf(Survivors[i]) = ScoreOf(Survivors[j]) /\ i < j

\* C22: when topK is set and more than topK candidates survive the
\* minimum-score filter, the selector returns exactly the topK
\* highest-scoring survivors in descending score order, candidates of
\* equal score in their original relative order.
C22_TopKOfSurvivors ==
    (selPc \in {"selected", "reselected"} /\ IsSome(selPolicy.topK)
        /\ Len(Survivors) > Val(selPolicy.topK)) =>
        /\ Len(selOut) = Val(selPolicy.topK)
        /\ \E f \in [1..Len(selOut) -> 1..Len(Survivors)] :
            /\ \A k \in 1..Len(selOut) : selOut[k] = Survivors[f[k]]
            /\ \A k, l \in 1..Len(selOut) : k < l => RanksBefore(f[k], f[l])
            /\ \A j \in 1..Len(Survivors) :
                (\A k \in 1..Len(selOut) : f[k] # j) =>
                    \A k \in 1..Len(selOut) : RanksBefore(f[k], j)

\* Two of three survivors are kept, the filter removed a candidate, and
\* the last place was decided between two survivors of one score.
C22_Witness ==
    /\ selPc = "selected"
    /\ IsSome(selPolicy.topK) /\ IsSome(selPolicy.minScore)
    /\ Len(Survivors) < Len(selItems)
    /\ Len(Survivors) > Val(selPolicy.topK)
    /\ Len(selOut) >= 1
    /\ \E j \in 1..Len(Survivors) :
        /\ ScoreOf(Survivors[j]) = ScoreOf(selOut[Len(selOut)])
        /\ Survivors[j] # selOut[Len(selOut)]

\* The models that can have generated the image at a path: the model of
\* the manifest item of a generated image, an image model of the provider
\* directory of a revised one.
GeneratorsOf(path) ==
    IF path[1] = "generate"
    THEN {item.model : item \in {it \in {OriginItem1, OriginItem2, OriginItem3,
                                           OriginLost} :
                                    it.path = path}}
    ELSE {m \in ImageModels : m.provider = path[2]}

\* The candidates of the current pass whose image file exists.
RevisableCandidates ==
    {k \in 1..Len(passLog[Len(passLog)].pool) :
        LET c == passLog[Len(passLog)].pool[k]
        IN  ImagePathOf(c) # None /\ FileExists(imageFiles, ImagePathOf(c))}

\* C23: without an explicit models override every selected candidate is
\* revised with the model that generated its image, be the candidate a
\* manifest item, a critique of a critique step or a critique of the
\* previous pass.
C23_RevisedWithOwnModel ==
    (cmd = "iterate" /\ Len(passLog) > 0 /\ iterIn.models = None) =>
        \A k \in RevisableCandidates :
            LET c == passLog[Len(passLog)].pool[k]
            IN  \E i \in 1..Len(units) :
                    /\ units[i].originalImagePath = ImagePathOf(c)
                    /\ units[i].model \in GeneratorsOf(ImagePathOf(c))

\* A manifest item is revised with the model that generated it.
C23_ManifestItemsOwnModel ==
    (cmd = "iterate" /\ Len(passLog) = 1 /\ iterIn.models = None) =>
        \A k \in RevisableCandidates :
            LET c == passLog[1].pool[k]
            IN  "path" \in DOMAIN c =>
                \E i \in 1..Len(units) :
                    /\ units[i].originalImagePath = c.path
                    /\ units[i].model = c.model

\* C24: generate/manifest.json is append-only within a run: an item of its
\* items array is still in the array after every later operation on the
\* run directory.
C24_ManifestAppendOnly ==
    [][cmd = "generate" =>
        \A k \in 1..Len(manifest.items) :
            \E l \in 1..Len(manifest'.items) :
                manifest'.items[l] = manifest.items[k]]_vars

\* The units of critiqueTask that saved their critique.
SavedUnits == {i \in 1..Len(units) : upc[i] = "ok"}

\* C25: within one critiqueTask invocation two distinct image paths are
\* never saved to the same critique/<imageId>.json, and after the stage
\* there are as many critique files as images critiqued with success.
C25_OwnCritiqueFile ==
    cmd = "critique" =>
        /\ \A i, j \in SavedUnits :
            units[i].imagePath # units[j].imagePath =>
                extractImageId(units[i].imagePath)
                    # extractImageId(units[j].imagePath)
        /\ (tpc = "done" /\ retKind = "results") =>
            Cardinality(critiqueFiles)
                = Cardinality({units[i].imagePath : i \in SavedUnits})

\* The path revise unit i writes its image to.
RevisedPathOfUnit(i) ==
    revisedImagePath(units[i].model.provider, units[i].screen, units[i].pass)

\* C26: within one pass two distinct revise units never write the same
\* revised-image path, and finalImages holds no path twice.
C26_OwnRevisedFile ==
    cmd = "iterate" =>
        /\ \A i, j \in 1..Len(units) :
            (i # j /\ upc[i] = "ok" /\ upc[j] = "ok") =>
                RevisedPathOfUnit(i) # RevisedPathOfUnit(j)
        /\ \A k, l \in 1..Len(finalImages) :
            k # l => finalImages[k] # finalImages[l]

\* The position of the step whose result is recorded under the id that
\* step k names in `from`, among the steps before k; 0 when there is none.
FromStep(k) ==
    IF IsSome(Steps[k].from)
        /\ \E j \in 1..(k - 1) : stepResults[j].id = Val(Steps[k].from)
    THEN CHOOSE j \in 1..(k - 1) : stepResults[j].id = Val(Steps[k].from)
    ELSE 0

\* The image paths of the successful results of a recorded step.
SuccessfulImagesOf(j) ==
    LET rs == stepResults[j].result.results
        ok == {i \in 1..Len(rs) : rs[i].success}
    IN  [n \in 1..Cardinality(ok) |->
            rs[CHOOSE i \in ok :
                Cardinality({h \in ok : h < i}) = n - 1].imagePath]

\* C27: a critique step whose `from` names an earlier generate or iterate
\* step critiques exactly the image paths of that step's successful
\* results; an iterate step whose `from` names an earlier critique step
\* takes that step's critiques as its items; a step whose `from` matches no
\* recorded result takes its explicit images or origin, and raises when it
\* has none.
C27_FromResolvesById ==
    (cmd = "run" /\ Len(plog) > 0) =>
        /\ \A k \in 1..Len(stepResults) :
            LET run == Val(Steps[k].run)
                r == stepResults[k].result
                j == FromStep(k)
            IN  /\ (run = "critique" /\ j > 0
                        /\ Val(Steps[j].run) \in {"generate", "iterate"}) =>
                    r.input = SuccessfulImagesOf(j)
                /\ (run = "iterate" /\ j > 0
                        /\ Val(Steps[j].run) = "critique") =>
                    r.input = stepResults[j].result.critiques
                /\ (run = "critique" /\ j = 0) =>
                    Steps[k].input /\ r.input = ExplicitImages
                /\ (run = "iterate" /\ j = 0) =>
                    Steps[k].input /\ r.input = ExplicitOrigin
        /\ (StepJustStarted /\ Val(Steps[pstep].run) \in {"critique", "iterate"}
                /\ FromStep(pstep) = 0 /\ ~Steps[pstep].input) =>
            tpc = "catch"

\* A critique step with explicit images too has critiqued the successful
\* image of the generate step it names, and not the failed one.
C27_Witness ==
    /\ cmd = "run" /\ Len(stepResults) = 2
    /\ Val(Steps[1].run) = "generate" /\ Val(Steps[2].run) = "critique"
    /\ Steps[2].from = Steps[1].id /\ Steps[2].input
    /\ stepResults[2].result.input = <<StepImage(1)>>
    /\ Len(stepResults[1].result.results) = 2

\* An iterate step has taken the critiques of the critique step it names.
C27_WitnessCritiques ==
    /\ cmd = "run" /\ Len(stepResults) = 2
    /\ Val(Steps[1].run) = "critique" /\ Val(Steps[2].run) = "iterate"
    /\ stepResults[2].result.input = stepResults[1].result.critiques
    /\ Len(stepResults[2].result.input) > 0

\* A step whose from matches nothing and that has no explicit input raised.
C27_WitnessRaises ==
    /\ cmd = "run" /\ tpc = "catch" /\ StepJustStarted
    /\ Val(Steps[pstep].run) = "critique" /\ IsSome(Steps[pstep].from)
    /\ IsSome(SpecFileFor(Steps[pstep]))
    /\ FromStep(pstep) = 0 /\ ~Steps[pstep].input

\* The units of critiqueTask that returned a critique, not a failure.
CritiquedUnits ==
    {i \in 1..Len(units) : IsSome(uout[i]) /\ Val(uout[i]).success}

\* The items of the final generate manifest follow the submission order of
\* their units.
ManifestInSubmissionOrder ==
    (cmd = "generate" /\ tpc = "done" /\ ~dryRun) =>
        \A k, l \in 1..Len(manifest.items) :
            k < l =>
                \E i, j \in 1..Len(units) :
                    /\ i < j
                    /\ ItemOfUnit(manifest.items[k], units[i])
                    /\ ItemOfUnit(manifest.items[l], units[j])

\* The leaderboard lists the critiqued units by descending score, units of
\* one score in submission order.
LeaderboardInScoreOrder ==
    (cmd = "critique" /\ tpc = "done" /\ retKind = "results") =>
        LET lb == Val(summary).leaderboard
        IN  /\ Len(lb) = Cardinality(CritiquedUnits)
            /\ \E f \in [1..Len(lb) -> CritiquedUnits] :
                /\ \A k \in 1..Len(lb) :
                    /\ lb[k].image = Val(uout[f[k]]).image
                    /\ lb[k].weightedTotal = Val(uout[f[k]]).weightedTotal
                /\ \A k, l \in 1..Len(lb) :
                    k < l =>
                        \/ ScoreOf(Val(uout[f[k]])) > ScoreOf(Val(uout[f[l]]))
                        \/ /\ ScoreOf(Val(uout[f[k]])) = ScoreOf(Val(uout[f[l]]))
                           /\ f[k] < f[l]

\* C28: the order of the items of the final generate manifest and of the
\* entries of the critique leaderboard is a function of the inputs and the
\* outcomes of the units, whatever the order in which the units completed.
C28_OrderIndependentOfCompletion ==
    ManifestInSubmissionOrder /\ LeaderboardInScoreOrder

\* A later unit appended its item before an earlier unit read the manifest,
\* and the final manifest lists the earlier unit first.
C28_Witness ==
    /\ cmd = "generate" /\ tpc = "done" /\ ~dryRun
    /\ \E i, j \in 1..Len(units) :
        /\ i < j /\ upc[i] = "ok" /\ upc[j] = "ok"
        /\ \E n \in 1..Len(ulocal[i].items) :
            ItemOfUnit(ulocal[i].items[n], units[j])
        /\ \E k, l \in 1..Len(manifest.items) :
            /\ k < l
            /\ ItemOfUnit(manifest.items[k], units[i])
            /\ ItemOfUnit(manifest.items[l], units[j])

\* Two critiques of one score are on the leaderboard.
C28_WitnessLeaderboard ==
    /\ cmd = "critique" /\ tpc = "done" /\ retKind = "results"
    /\ Len(Val(summary).leaderboard) = 2
    /\ Val(summary).leaderboard[1].weightedTotal
        = Val(summary).leaderboard[2].weightedTotal
    /\ Val(summary).leaderboard[1].image # Val(summary).leaderboard[2].image

\* The caller set neither topK nor a minimum score.
NeitherSet ==
    selArgs.select = None \/ selArgs.select = Some(NoCriterion)

\* C29: whenever an iterate invocation has neither topK nor a minimum score
\* set (the command without --top-k and --min-score, a pipeline step
\* without select, a pipeline step whose select sets neither), the policy
\* applied is topK = 3 and minimum score 70.
C29_DefaultPolicy ==
    (cmd = "select" /\ selPc # "resolve" /\ NeitherSet) =>
        selPolicy = DefaultSelect

\* The command and a step without select get the default policy.
DefaultForCliAndPlainStep ==
    (cmd = "select" /\ selPc # "resolve" /\ NeitherSet
        /\ (selArgs.via = "cli" \/ selArgs.select = None)) =>
        selPolicy = DefaultSelect

\* C30: whenever a base seed is supplied to generateTask, 0 included, the
\* unit of variant v calls the provider with seed = base seed + v; when no
\* base seed is supplied the unit has no seed.
C30_SeedPerVariant ==
    (cmd = "generate" /\ tpc # "start") =>
        \A i \in 1..Len(units) :
            units[i].seed =
                IF IsSome(genIn.seed)
                THEN Some(Val(genIn.seed) + units[i].variant)
                ELSE None

\* For a base seed other than 0 the unit of variant v has seed base + v.
SeedPerVariantNonZero ==
    (cmd = "generate" /\ tpc # "start" /\ genIn.seed # Some(0)) =>
        \A i \in 1..Len(units) :
            units[i].seed =
                IF IsSome(genIn.seed)
                THEN Some(Val(genIn.seed) + units[i].variant)
                ELSE None

\* C31: the variant descriptor of variant v is taken from the list of 8
\* descriptors by rotation: variant v gets the descriptor at position
\* ((v - 1) mod 8) + 1, so variant 9 that of variant 1 and variant 10 that
\* of variant 2.
C31_DescriptorRotates ==
    (cmd = "prompt" /\ prPc = "done" /\ IsSome(prIn.variant)) =>
        prContext = VARIANT_DESCRIPTORS[
            ((Val(prIn.variant) - 1) % Len(VARIANT_DESCRIPTORS)) + 1]

\* Variants 1 to 8 get the descriptor at their own position, and every
\* later variant gets the first descriptor.
DescriptorInRangeOrFirst ==
    (cmd = "prompt" /\ prPc = "done" /\ IsSome(prIn.variant)) =>
        prContext =
            IF Val(prIn.variant) <= Len(VARIANT_DESCRIPTORS)
            THEN VARIANT_DESCRIPTORS[Val(prIn.variant)]
            ELSE VARIANT_DESCRIPTORS[1]

\* The pipeline file without the from references of its steps.
WithoutFrom(file) ==
    IF file = None \/ ~IsSome(Val(file).steps) THEN file
    ELSE Some([Val(file) EXCEPT !.steps =
                 Some([k \in 1..Len(Val(Val(file).steps)) |->
                         [Val(Val(file).steps)[k] EXCEPT !.from = None]])])

\* The ids of the steps declared before step k.
DeclaredBefore(k) == {Val(Steps[j].id) : j \in 1..(k - 1)}

\* Step k was warned about on the console.
WarnedAbout(k) ==
    /\ IsSome(Steps[k].from)
    /\ \E n \in 1..Len(pwarn) :
         pwarn[n] = [step |-> Val(Steps[k].id), from |-> Val(Steps[k].from)]

\* The pipeline was loaded and validation threw nothing.
Accepted == cmd = "run" /\ tpc # "start" /\ loadPipeline(pipeline) = NoError

\* C32: validation never throws because of a from reference, and in an
\* accepted pipeline every step whose from does not name a step declared
\* earlier in the list (an unknown id, a later step, the step itself) has a
\* warning on the console, and the pipeline is executed.
C32_DanglingFromWarns ==
    /\ (cmd = "run" /\ tpc # "start") =>
           loadPipeline(pipeline) = loadPipeline(WithoutFrom(pipeline))
    /\ Accepted =>
           /\ tpc # "handler-catch"
           /\ \A k \in 1..Len(Steps) :
                 (IsSome(Steps[k].from)
                    /\ Val(Steps[k].from) \notin DeclaredBefore(k))
                 => WarnedAbout(k)

\* Validation never throws because of a from reference, and an accepted
\* pipeline has a warning for every step whose from names neither an earlier
\* step nor the step itself, and for no other step.
WarnsUnlessEarlierOrSelf ==
    /\ (cmd = "run" /\ tpc # "start") =>
           loadPipeline(pipeline) = loadPipeline(WithoutFrom(pipeline))
    /\ Accepted =>
           /\ tpc # "handler-catch"
           /\ \A k \in 1..Len(Steps) :
                 WarnedAbout(k) <=>
                    (IsSome(Steps[k].from)
                       /\ Val(Steps[k].from)
                            \notin (DeclaredBefore(k) \cup {Val(Steps[k].id)}))

\* An accepted pipeline whose first step names a step declared after it was
\* warned about and ran to the end.
WarnedPipelineExecuted ==
    /\ Accepted /\ tpc = "done" /\ retKind = "results"
    /\ Len(Steps) = 2 /\ WarnedAbout(1)
    /\ Steps[1].from = Steps[2].id

\* The pass in execution, or the last one executed.
LastPass == passLog[Len(passLog)]

\* The image-capable models of a candidate of iterateTask.
CapableModelsOf(imageData) ==
    LET imageModels == IF IsSome(iterIn.models) THEN Val(iterIn.models)
                       ELSE <<extractModelFromImage(imageData)>>
    IN  {imageModels[k] : k \in {n \in 1..Len(imageModels) :
                                    isImageGenerationModel(imageModels[n])}}

\* The candidate has no image path, or no file at it.
SourceMissing(imageData) ==
    ImagePathOf(imageData) = None
        \/ \A f \in imageFiles : f.path # ImagePathOf(imageData)

\* C33: in an iteration pass, a candidate whose source image path is absent
\* or does not exist is skipped with an iterate-missing-image warning: no
\* revision unit is submitted for it and no result of the pass is about it;
\* the other candidates have their revision units, and the stage does not
\* raise because of it.
C33_MissingImageSkipped ==
    (cmd = "iterate" /\ passLog # <<>>) =>
        /\ \A c \in 1..Len(LastPass.pool) :
              LET d == LastPass.pool[c]
              IN  IF SourceMissing(d)
                  THEN /\ \E w \in 1..Len(LastPass.missing) :
                            LastPass.missing[w] = ImagePathOf(d)
                       /\ \A i \in 1..Len(units) :
                            units[i].originalImagePath # ImagePathOf(d)
                       /\ \A r \in 1..Len(allResults) :
                            allResults[r].pass = LastPass.pass =>
                                allResults[r].originalImagePath
                                    # ImagePathOf(d)
                  ELSE \A md \in CapableModelsOf(d) :
                            \E i \in 1..Len(units) :
                                /\ units[i].originalImagePath = ImagePathOf(d)
                                /\ units[i].model = md
        /\ Len(LastPass.missing)
              = Cardinality({c \in 1..Len(LastPass.pool) :
                                SourceMissing(LastPass.pool[c])})
        /\ retKind = "raised" => IsSome(LastPass.critiqued)

\* iterateTask returned the revision of one candidate of a pass in which
\* another candidate was skipped for its missing image.
C33_Witness ==
    /\ cmd = "iterate" /\ tpc = "done" /\ retKind = "results"
    /\ passLog # <<>>
    /\ Len(passLog[1].pool) = 2 /\ Len(passLog[1].missing) = 1
    /\ \E r \in 1..Len(results) : results[r].success /\ results[r].pass = 1

\* As C33_Witness, the skipped candidate having no image path at all.
C33_WitnessNoPath ==
    /\ C33_Witness
    /\ passLog[1].missing[1] = None

\* The positions of the successful critiques among those critiqueTask
\* returned.
SuccessfulCritiques == {r \in 1..Len(results) : results[r].success}

\* C34: the leaderboard of critiqueTask holds exactly the successful
\* critiques of the invocation, each once, sorted descending by weighted
\* total with ties in their original relative order, ranked 1..n by
\* position; a failed critique is not on it.
C34_LeaderboardOfSuccesses ==
    (cmd = "critique" /\ tpc = "done" /\ retKind = "results") =>
        LET lb == Val(summary).leaderboard
        IN  /\ Len(lb) = Cardinality(SuccessfulCritiques)
            /\ \A k \in 1..Len(lb) : lb[k].rank = k
            /\ \E f \in [1..Len(lb) -> SuccessfulCritiques] :
                /\ \A k, l \in 1..Len(lb) : k # l => f[k] # f[l]
                /\ \A k \in 1..Len(lb) :
                    /\ lb[k].image = results[f[k]].image
                    /\ lb[k].model = results[f[k]].model
                    /\ lb[k].weightedTotal = results[f[k]].weightedTotal
                /\ \A k \in 1..(Len(lb) - 1) :
                    \/ ScoreOf(results[f[k]]) > ScoreOf(results[f[k + 1]])
                    \/ /\ ScoreOf(results[f[k]]) = ScoreOf(results[f[k + 1]])
                       /\ f[k] < f[k + 1]

\* Of two critiques the first failed; the leaderboard holds the second alone.
C34_Witness ==
    /\ cmd = "critique" /\ tpc = "done" /\ retKind = "results"
    /\ Len(results) = 2 /\ ~results[1].success /\ results[2].success
    /\ Len(Val(summary).leaderboard) = 1
    /\ Val(summary).leaderboard[1].image = results[2].image

\* Two successful critiques, the second with the higher total, are on the
\* leaderboard in the reverse of their submission order.
C34_WitnessReordered ==
    /\ cmd = "critique" /\ tpc = "done" /\ retKind = "results"
    /\ Len(results) = 2 /\ results[1].success /\ results[2].success
    /\ ScoreOf(results[2]) > ScoreOf(results[1])
    /\ Val(summary).leaderboard[1].image = results[2].image
    /\ Val(summary).leaderboard[1].image # results[1].image

\* The positions in the returned list of the results of pass p.
ResultsAbout(p) == {r \in 1..Len(results) : results[r].pass = p}

\* C35: when iterateTask returns, every revision attempt started in any of
\* its passes, successful or failed, is in the flat results list exactly
\* once, the passes in order and the attempts of the last pass in the order
\* of their submission; a failed attempt is there as a failure result, and
\* the stage raises only out of the critique between two passes.
C35_EveryAttemptRecorded ==
    /\ (cmd = "iterate" /\ tpc = "done" /\ retKind = "results") =>
          /\ \A n \in 1..Len(passLog) :
                /\ Cardinality(ResultsAbout(passLog[n].pass))
                      = passLog[n].started
                /\ Cardinality({r \in ResultsAbout(passLog[n].pass) :
                                 results[r].success})
                      = passLog[n].succeeded
          /\ \A r, s \in 1..Len(results) :
                r < s => results[r].pass <= results[s].pass
          /\ passLog # <<>> =>
                /\ Len(results) >= Len(units)
                /\ \A i \in 1..Len(units) :
                      LET r == results[Len(results) - Len(units) + i]
                      IN  /\ r = Val(uout[i])
                          /\ r.pass = LastPass.pass
                          /\ r.originalImagePath = units[i].originalImagePath
                          /\ r.success = (upc[i] = "ok")
    /\ (cmd = "iterate" /\ retKind = "raised") =>
          (passLog # <<>> /\ IsSome(LastPass.critiqued))

\* iterateTask returned after two passes, each with an attempt, a failed
\* one among them.
C35_Witness ==
    /\ cmd = "iterate" /\ tpc = "done" /\ retKind = "results"
    /\ Len(passLog) = 2
    /\ passLog[1].started >= 1 /\ passLog[2].started >= 1
    /\ \E r \in 1..Len(results) : ~results[r].success
    /\ \E r \in 1..Len(results) : results[r].success

\* A step of the model is a call of selectImagesForIteration.
SelectCall ==
    cmd = "select" /\ selPc \in {"start", "selected"} /\ selPc' # selPc

\* C36: selection is pure and has no side effects: a call of
\* selectImagesForIteration modifies neither the candidate list passed to it
\* nor any candidate, and changes no other state.
C36_SelectionPure ==
    [][SelectCall =>
          /\ selItems' = selItems
          /\ selPc = "selected" => selOut' = selOut
          /\ UNCHANGED <<selLeft, selPolicy, selArgs, plog>>]_vars

\* A call of selectImagesForIteration modifies neither the candidate list
\* passed to it nor any candidate, and changes nothing but logs.jsonl, to
\* which it appends.
C36_SelectionFrame ==
    [][SelectCall =>
          /\ selItems' = selItems
          /\ selPc = "selected" => selOut' = selOut
          /\ UNCHANGED <<selLeft, selPolicy, selArgs>>
          /\ Len(plog') >= Len(plog)
          /\ SubSeq(plog', 1, Len(plog)) = plog]_vars

\* A selection by topK alone returned the candidates in another order than
\* the list it was passed, which is as it was.
C36_Witness ==
    /\ cmd = "select" /\ selPc = "selected"
    /\ ~IsSome(selPolicy.minScore) /\ IsSome(selPolicy.topK)
    /\ selOut # <<>> /\ selOut[1] # selItems[1]
    /\ selItems # SortByScoreDesc(selItems)
    /\ plog # <<>>

\* No candidate of a pass after the first is a failed critique.
NoFailedCandidate ==
    \A n \in 2..Len(passLog) :
        \A c \in 1..Len(passLog[n].pool) :
            "success" \in DOMAIN passLog[n].pool[c]
                => passLog[n].pool[c].success

\* C37: an image whose re-critique failed is never a candidate of the next
\* pass of iterateTask, whatever the selection policy, a policy with topK
\* alone or with a minimum score of 0 included.
C37_FailedCritiqueNotSelected ==
    cmd = "iterate" => NoFailedCandidate

\* Under a policy with a minimum score above 0, an image whose re-critique
\* failed is never a candidate of the next pass.
FailedExcludedByMinScore ==
    (cmd = "iterate" /\ IsSome(iterIn.select.minScore)
        /\ Val(iterIn.select.minScore) > 0) => NoFailedCandidate

\* The positions of iterate-complete in the log.
CompleteLogged ==
    {k \in 1..Len(plog) : plog[k].event = "iterate-complete"}

\* The passes whose revise step ran are 1, 2, ... in order, at most
\* `passes` of them; critiqueTask was called after at most passes - 1 of
\* them and not after pass number `passes`; iterate-complete is logged at
\* most once, and not before the task is over.
BoundedPasses ==
    cmd = "iterate" =>
        /\ Len(passLog) <= iterIn.passes
        /\ \A n \in 1..Len(passLog) : passLog[n].pass = n
        /\ Cardinality({n \in 1..Len(passLog) : IsSome(passLog[n].critiqued)})
              <= iterIn.passes - 1
        /\ \A n \in 1..Len(passLog) :
              passLog[n].pass = iterIn.passes => ~IsSome(passLog[n].critiqued)
        /\ Cardinality(CompleteLogged) <= 1
        /\ CompleteLogged # {} => tpc = "done"

\* C38: iterateTask always terminates when every provider call returns: it
\* runs the revise step for passes 1, 2, ... in increasing order, at most
\* `passes` times, calls critiqueTask at most passes - 1 times and never
\* after the last pass, and logs iterate-complete exactly once, at its end.
C38_TerminatesLogged ==
    /\ []BoundedPasses
    /\ <>(cmd = "iterate" => (tpc = "done" /\ Cardinality(CompleteLogged) = 1))

\* iterateTask always terminates when every provider call returns, with the
\* passes and the critiques bounded as above; it logs iterate-complete
\* exactly once when it returns its results, and not at all when it returns
\* the plan of a dry run or raises.
C38_Terminates ==
    /\ []BoundedPasses
    /\ <>(cmd = "iterate" => tpc = "done")
    /\ []((cmd = "iterate" /\ tpc = "done") =>
            Cardinality(CompleteLogged)
                = IF retKind = "results" THEN 1 ELSE 0)

\* iterateTask returned after `passes` = 2 passes and one critique between
\* them, iterate-complete being the last entry of the log.
C38_Witness ==
    /\ cmd = "iterate" /\ tpc = "done" /\ retKind = "results"
    /\ iterIn.passes = 2 /\ Len(passLog) = 2
    /\ IsSome(passLog[1].critiqued) /\ ~IsSome(passLog[2].critiqued)
    /\ plog # <<>> /\ plog[Len(plog)].event = "iterate-complete"

\* C39: the dry-run plan agrees with the real run on the same inputs: the
\* plan of generateTask has as many entries as the real generateTask submits
\* units, and the selectedImages of the plan of iterateTask is the number of
\* candidates the first selection of the real iterateTask returns.
C39_PlanAgreesWithRun ==
    /\ (cmd = "generate" /\ tpc = "done" /\ retKind = "plan") =>
          Len(results) = Len(GenUnits(genIn))
    /\ (cmd = "generate" /\ tpc = "running") =>
          Len(units) = GenPlanLength(genIn)
    /\ (cmd = "iterate" /\ tpc = "done" /\ retKind = "plan") =>
          results[1].selectedImages
            = Len(selectImagesForIteration(iterIn.origin, iterIn.select))
    /\ (cmd = "iterate" /\ passLog # <<>>) =>
          Len(passLog[1].pool)
            = simulateIteration(iterIn.origin, iterIn.select,
                                iterIn.passes).selectedImages

\* The first pass of a real iterateTask has a candidate, and fewer
\* candidates than the origin has items.
C39_Witness ==
    /\ cmd = "iterate" /\ passLog # <<>>
    /\ Len(passLog[1].pool) >= 1
    /\ Len(passLog[1].pool) < Len(iterIn.origin)

\* The plan of a dry generateTask given a model that is not an image model
\* among its models.
C39_WitnessPlan ==
    /\ cmd = "generate" /\ tpc = "done" /\ retKind = "plan"
    /\ Len(results) >= 2
    /\ \E m \in 1..Len(genIn.models) : ~isImageGenerationModel(genIn.models[m])

\* The plan of a dry iterateTask whose selection drops a candidate.
C39_WitnessIteratePlan ==
    /\ cmd = "iterate" /\ tpc = "done" /\ retKind = "plan"
    /\ results[1].selectedImages >= 1
    /\ results[1].selectedImages < results[1].totalImages

\* C40: the passes value iterateTask returns is the number of passes whose
\* revise step was executed, also when the iteration stops early.
C40_PassesReturnedAreExecuted ==
    (cmd = "iterate" /\ tpc = "done" /\ retKind = "results") =>
        retPasses = Len(passLog)

\* The passes value iterateTask returns is the number of passes it was asked
\* for, which is the number executed when no pass ended the loop early.
PassesReturnedAreRequested ==
    (cmd = "iterate" /\ tpc = "done" /\ retKind = "results") =>
        /\ retPasses = iterIn.passes
        /\ Len(passLog) <= retPasses

\* C1: in iterateTask, once a pass has ended with zero successful revisions
\* (all its revisions failed, or it had none), no revise unit of a later
\* pass is started.
C1_StopsAfterEmptyPass ==
    cmd = "iterate" =>
        \A p \in 1..Len(passLog), q \in 1..Len(passLog) :
            (p < q /\ passLog[p].succeeded = 0) => passLog[q].started = 0

\* C3: in every reachable state of a stage invocation (generateTask,
\* critiqueTask, one executeIterationPass) the number of units started and
\* not yet settled is at most the concurrency limit.
C3_InFlightBound == InFlight <= concurrency

C3_Witness ==
    /\ cmd = "iterate" /\ tpc = "revising"
    /\ concurrency >= 2
    /\ InFlight = concurrency
    /\ \E i \in 1..Len(upc) : upc[i] = "queued"

\* The pipeline file breaks a rule of the validation: no name, no steps
\* list or an empty one, a step without id, two steps with the same id, or
\* a step whose run is not generate, critique or iterate.
InvalidPipeline ==
    /\ pipeline /= None
    /\ LET p == Val(pipeline)
       IN  \/ ~IsSome(p.name)
           \/ ~IsSome(p.steps)
           \/ /\ IsSome(p.steps)
              /\ LET s == Val(p.steps)
                 IN  \/ Len(s) = 0
                     \/ \E k \in 1..Len(s) : s[k].id = None
                     \/ \E j \in 1..Len(s), k \in 1..Len(s) :
                            j < k /\ s[j].id /= None /\ s[j].id = s[k].id
                     \/ \E k \in 1..Len(s) :
                            s[k].run \notin {Some(t) : t \in StepTypes}

StepStarts == SelectSeq(plog, LAMBDA e : e.event = "step-start")

\* C7: an invalid pipeline is rejected before any step executes: the run
\* command ends with an error, no step-start is logged, no stage is
\* dispatched, nothing is recorded or written.
C7_InvalidRejected ==
    (cmd = "run" /\ InvalidPipeline) =>
        /\ StepStarts = <<>>
        /\ tpc \in {"start", "handler-catch", "done"}
        /\ pstep = 0 /\ stepResults = <<>> /\ pdisk = {} /\ providerCalls = 0
        /\ tpc = "done" => retKind = "exit1"

C7_Witness ==
    /\ cmd = "run" /\ tpc = "done" /\ retKind = "exit1"
    /\ pipeline /= None
    /\ Val(pipeline).name /= None /\ Val(pipeline).steps /= None
    /\ LET s == Val(Val(pipeline).steps)
       IN  /\ Len(s) = 2 /\ s[1].id = Some("a") /\ s[2].id = Some("a")
           /\ \A k \in 1..2 : s[k].run \in {Some(t) : t \in StepTypes}

\* The dispatch of step pstep has raised and execute has rethrown.
Aborted ==
    /\ cmd = "run" /\ pstep >= 1
    /\ tpc = "rethrown" \/ (tpc = "done" /\ retKind = "exit1")

\* What holds after the abort: no step after the raising one was started,
\* pipeline-error is the last log entry, the results of the steps
\* completed before are recorded, and every completed step's artifacts are
\* on disk, as that step or a later step of its type wrote them.
AbortedState ==
    /\ Len(StepStarts) = pstep
    /\ \A j \in 1..pstep : StepStarts[j].step = Steps[j].id
    /\ plog[Len(plog)] = LogEntry("pipeline-error", None)
    /\ Len(stepResults) = pstep - 1
    /\ \A j \in 1..(pstep - 1) :
        /\ stepResults[j] = [id |-> Val(Steps[j].id),
                             result |->
                                StageResult(Val(Steps[j].run), j,
                                    Val(loadStepSpec(Steps[j], popts)),
                                    Val(StepInput(Steps[j],
                                        SubSeq(stepResults, 1, j - 1))))]
        /\ \E a \in pdisk : a.dir = Val(Steps[j].run) /\ a.by \in j..pstep

\* The catch block of execute changes neither the recorded results nor the
\* artifacts on disk; it logs pipeline-error and rethrows.
CatchKeepsAll ==
    (cmd = "run" /\ tpc = "catch" /\ tpc' /= "catch") =>
        /\ stepResults' = stepResults
        /\ pdisk' = pdisk
        /\ plog' = Append(plog, LogEntry("pipeline-error", None))
        /\ tpc' = "rethrown" /\ retKind' = "raised"

\* C8: when the dispatch of step k raises, the pipeline is aborted: no later
\* step is started, pipeline-error is logged, the error is rethrown, and the
\* recorded results and the artifacts on disk are left as they were.
C8_FailFast == [](Aborted => AbortedState) /\ [][CatchKeepsAll]_vars

C8_Witness ==
    /\ cmd = "run" /\ tpc = "rethrown" /\ retKind = "raised"
    /\ pstep = 2 /\ Len(stepResults) = 1
    /\ \E a \in pdisk : a.by = 1

\* C9 as stated: with dryRun no provider call is made and each of the three
\* tasks, when it ends, returns a plan object.
C9_DryRunReturnsPlan ==
    dryRun =>
        /\ providerCalls = 0
        /\ (cmd \in {"generate", "critique", "iterate"} /\ tpc = "done") =>
                retKind = "plan"

\* C9: with dryRun no provider call is made and no unit is submitted;
\* generateTask and iterateTask return a plan object; critiqueTask returns a
\* plan object when its model is a vision model and raises when it is not;
\* the run command prints the plan of a valid pipeline and returns, logging
\* nothing and starting no step, and fails on an invalid one.
C9_DryRunShortCircuits ==
    dryRun =>
        /\ providerCalls = 0
        /\ units = <<>>
        /\ (cmd \in {"generate", "iterate"} /\ tpc = "done") => retKind = "plan"
        /\ (cmd = "critique" /\ tpc = "done") =>
                retKind = IF isVisionModel(ResolveCritiqueModel(critIn.model,
                                                                critIn.configModel))
                          THEN "plan" ELSE "raised"
        /\ cmd = "run" =>
                /\ plog = <<>> /\ pstep = 0 /\ pdisk = {}
                /\ tpc = "done" =>
                        retKind = IF loadPipeline(pipeline) = NoError
                                  THEN "printed" ELSE "exit1"

C9_Witness ==
    /\ dryRun /\ cmd = "critique" /\ tpc = "done" /\ retKind = "plan"
    /\ Len(critIn.images) >= 1
    /\ providerCalls = 0

====
